---- MODULE Spec2Model ----
(***************************************************************************)
(* Mail session gateway of packages/email: account resolution (config.ts), *)
(* the IMAP client (imap-client.ts), the SMTP client (smtp-client.ts) and  *)
(* the tool handlers that call them.                                       *)
(*                                                                         *)
(* Conventions.  An optional TypeScript value is a sequence of length at   *)
(* most one: << >> is undefined (the key is absent), <<v>> is the value v. *)
(* The Chinese folder name of the 163 preset is written in ASCII.          *)
(***************************************************************************)
EXTENDS Integers, Sequences, FiniteSets, TLC

VARIABLES
    account,      \* the Account record handed to resolveAccount
    resolved,     \* outcome of resolveAccount(account)
    resolved2,    \* outcome of resolveAccount applied to the first result
    rpc,          \* position of the resolution run: start, resolved, again
    scenario,     \* which tool inputs the environment draws from
    mailbox,      \* server state: folder -> (uid -> message)
    uidNext,      \* server state: folder -> next UID the folder assigns
    conns,        \* every transport ever created, in creation order
    requests,     \* number of tool requests received so far
    nCalls,       \* number of client method calls started so far
    req,          \* per request slot: the tool handler's own state
    call,         \* per request slot: the client method call in progress
    pc,           \* per request slot: the await the handler is suspended at
    response,     \* per request slot: what the handler returned last
    journal,      \* the requests of a one-at-a-time run, with their outcomes
    original,     \* composing run: the fetched message and the handler's input
    mail,         \* composing run: what sendEmail was given and what it submits
    probe         \* search run: the criteria, a message, and whether it matched

resolveVars == <<account, resolved, resolved2, rpc>>

serverVars == <<mailbox, uidNext>>

vars ==
    <<account, resolved, resolved2, rpc, scenario, mailbox, uidNext, conns,
      requests, nCalls, req, call, pc, response, journal, original, mail,
      probe>>

composeVars == <<original, mail>>

----------------------------------------------------------------------------
(* Optional values *)

undefined == << >>

Some(v) == <<v>>

\* a ?? b
Coalesce(a, b) == IF a = undefined THEN b ELSE a

\* !s for an optional string s: undefined and the empty string are falsy
Falsy(s) == s = undefined \/ s = Some("")

\* a ?? b for a required default
OrDefault(a, d) == IF a = undefined THEN d ELSE a[1]

----------------------------------------------------------------------------
(* config.ts *)

Builtin == {"gmail", "qq", "163", "outlook"}

ProviderName == Builtin \cup {"custom"}

EMAIL_PROVIDERS ==
    [p \in Builtin |->
        CASE p = "gmail" ->
               [imap_server |-> "imap.gmail.com", imap_port |-> 993,
                smtp_server |-> "smtp.gmail.com", smtp_port |-> 587,
                smtp_secure |-> FALSE, trash_folder |-> "[Gmail]/Trash"]
          [] p = "qq" ->
               [imap_server |-> "imap.qq.com", imap_port |-> 993,
                smtp_server |-> "smtp.qq.com", smtp_port |-> 465,
                smtp_secure |-> TRUE, trash_folder |-> "Deleted Messages"]
          [] p = "163" ->
               [imap_server |-> "imap.163.com", imap_port |-> 993,
                smtp_server |-> "smtp.163.com", smtp_port |-> 465,
                smtp_secure |-> TRUE, trash_folder |-> "YiShanChu",
                requiresImapId |-> TRUE]
          [] p = "outlook" ->
               [imap_server |-> "outlook.office365.com", imap_port |-> 993,
                smtp_server |-> "smtp.office365.com", smtp_port |-> 587,
                smtp_secure |-> FALSE, trash_folder |-> "Deleted"]]

\* The values AccountSchema accepts for the optional overrides.
HostInputs == {undefined, Some(""), Some("mail.example.com")}

PortInputs == {undefined, Some(0), Some(2525)}

SecureInputs == {undefined, Some(TRUE), Some(FALSE)}

TrashInputs == {undefined, Some(""), Some("Bin")}

AccountSchema ==
    [id : {Some("work")}, email : {Some("me@example.com")},
     password : {Some("secret")}, provider : ProviderName,
     imap_server : HostInputs, imap_port : PortInputs,
     smtp_server : HostInputs, smtp_port : PortInputs,
     smtp_secure : SecureInputs, trash_folder : TrashInputs,
     requiresImapId : {undefined}]

Threw == [ok |-> FALSE, value |-> undefined]

Returned(v) == [ok |-> TRUE, value |-> v]

\* Mutant: the guard tests the IMAP host only.
customMissingImapOnly(a) == Falsy(a.imap_server)

\* config.ts:103, the guard of the throw
customMissingServer(a) == Falsy(a.imap_server) \/ Falsy(a.smtp_server)

\* config.ts:108-116
resolveCustom(a) ==
    [a EXCEPT !.imap_server = a.imap_server,
              !.imap_port = Coalesce(a.imap_port, Some(993)),
              !.smtp_server = a.smtp_server,
              !.smtp_port = Coalesce(a.smtp_port, Some(465)),
              !.smtp_secure = Coalesce(a.smtp_secure, Some(TRUE)),
              !.trash_folder = Coalesce(a.trash_folder, Some("Trash"))]

\* Mutant: an overridden IMAP host switches the handshake off.
presetRequiresImapIdUnlessOverridden(a, preset) ==
    IF a.imap_server # undefined THEN FALSE
    ELSE IF "requiresImapId" \in DOMAIN preset THEN preset.requiresImapId ELSE FALSE

\* config.ts:129
presetRequiresImapId(a, preset) ==
    IF "requiresImapId" \in DOMAIN preset THEN preset.requiresImapId ELSE FALSE

\* a || b on optional booleans
OrElse(a, b) == IF a = undefined \/ a = Some(FALSE) THEN b ELSE a

\* Mutant: smtp_secure is filled with || instead of ??.
resolvePresetSecureOr(a) ==
    LET preset == EMAIL_PROVIDERS[a.provider]
    IN  [a EXCEPT !.imap_server = Coalesce(a.imap_server, Some(preset.imap_server)),
                  !.imap_port = Coalesce(a.imap_port, Some(preset.imap_port)),
                  !.smtp_server = Coalesce(a.smtp_server, Some(preset.smtp_server)),
                  !.smtp_port = Coalesce(a.smtp_port, Some(preset.smtp_port)),
                  !.smtp_secure = OrElse(a.smtp_secure, Some(preset.smtp_secure)),
                  !.trash_folder = Coalesce(a.trash_folder, Some(preset.trash_folder)),
                  !.requiresImapId =
                      Some(IF "requiresImapId" \in DOMAIN preset
                           THEN preset.requiresImapId ELSE FALSE)]

\* config.ts:120-130
resolvePreset(a) ==
    LET preset == EMAIL_PROVIDERS[a.provider]
    IN  [a EXCEPT !.imap_server = Coalesce(a.imap_server, Some(preset.imap_server)),
                  !.imap_port = Coalesce(a.imap_port, Some(preset.imap_port)),
                  !.smtp_server = Coalesce(a.smtp_server, Some(preset.smtp_server)),
                  !.smtp_port = Coalesce(a.smtp_port, Some(preset.smtp_port)),
                  !.smtp_secure = Coalesce(a.smtp_secure, Some(preset.smtp_secure)),
                  !.trash_folder = Coalesce(a.trash_folder, Some(preset.trash_folder)),
                  !.requiresImapId = Some(presetRequiresImapId(a, preset))]

\* config.ts:100-131
resolveAccount(a) ==
    IF a.provider = "custom"
    THEN IF customMissingServer(a) THEN Threw ELSE Returned(resolveCustom(a))
    ELSE Returned(resolvePreset(a))

----------------------------------------------------------------------------
(* Bounds *)

NumSlots == 2          \* request slots: tool requests that may overlap

MaxRequests == 2       \* tool requests received in one run

MaxUid == 3            \* UIDs of the initial INBOX are drawn from 1..MaxUid

MaxRecipients == 2     \* addresses in the To list and in the Cc list of an original

MaxSubject == 4        \* characters in the subject of an original

LimitDenominator == 2  \* a limit value k stands for the number k / LimitDenominator

Slots == 1..NumSlots

----------------------------------------------------------------------------
(* The IMAP server: mailboxes of messages addressed by UID. *)

Message == [flags : SUBSET {"Seen", "Flagged", "Deleted"}, att : BOOLEAN]

Range(f) == {f[x] : x \in DOMAIN f}

Min(a, b) == IF a <= b THEN a ELSE b

Max(a, b) == IF a >= b THEN a ELSE b

SetMax(S) == CHOOSE m \in S : \A x \in S : x <= m

\* The orders in which the server may deliver the messages of a set.
Orders(S) ==
    {o \in [1..Cardinality(S) -> S] : \A i, j \in DOMAIN o : o[i] = o[j] => i = j}

\* The header and body fields a keyword is searched in; a field of a
\* message is the set of the keywords it contains.
TextFields == {"subject", "from", "to", "body"}

\* Whether message m satisfies the key k, with value v, of an imapflow
\* search object: SUBJECT, FROM, TO and BODY are substring matches, OR holds
\* when one of its alternatives does, SINCE and BEFORE compare the day of
\* the message with the day given.
KeyMatches(k, v, m) ==
    CASE k = "all" -> TRUE
      [] k = "unseen" -> "Seen" \notin m.flags
      [] k = "flagged" -> "Flagged" \in m.flags
      [] k \in TextFields -> v \in m[k]
      [] k = "or" ->
           \E i \in DOMAIN v : \A f \in DOMAIN v[i] : v[i][f] \in m[f]
      [] k = "since" -> m.day >= v
      [] k = "before" -> m.day < v

\* UID SEARCH: the UIDs of the folder whose message satisfies every key of
\* the search object.
ServerSearch(box, query) ==
    {u \in DOMAIN box : \A k \in DOMAIN query : KeyMatches(k, query[k], box[u])}

\* The UID of the message with sequence number n: the n-th smallest UID.
UidAt(box, n) ==
    CHOOSE u \in DOMAIN box : Cardinality({v \in DOMAIN box : v <= u}) = n

\* FETCH n1,n2,... (no UID prefix): the messages whose sequence number is
\* in the range, named by their UID.
ServerFetchBySeq(box, range) ==
    {UidAt(box, n) : n \in range \cap (1..Cardinality(DOMAIN box))}

\* UID STORE +FLAGS / -FLAGS: UIDs that do not exist are skipped silently.
ServerStore(box, uids, flag, add) ==
    [u \in DOMAIN box |->
        IF u \in uids
        THEN [box[u] EXCEPT !.flags = IF add THEN @ \cup {flag} ELSE @ \ {flag}]
        ELSE box[u]]

\* UID EXPUNGE of the given UIDs.
ServerExpunge(box, uids) == [u \in DOMAIN box \ uids |-> box[u]]

\* The order in which the moved UIDs get their new UIDs in the target.
RECURSIVE SortAsc(_)
SortAsc(S) ==
    IF S = {} THEN << >>
    ELSE LET m == CHOOSE x \in S : \A y \in S : x <= y IN <<m>> \o SortAsc(S \ {m})

\* UID MOVE to an existing folder: the messages leave the source and get
\* fresh UIDs in the target (which may be the source folder itself).
ServerMove(boxes, next, src, uids, dst) ==
    LET moved == SortAsc(uids \cap DOMAIN boxes[src])
        n == Len(moved)
        newUids == {next[dst] + i - 1 : i \in 1..n}
        left == [boxes EXCEPT
                    ![src] = [u \in DOMAIN boxes[src] \ uids |-> boxes[src][u]]]
    IN  [boxes |->
            [left EXCEPT
                ![dst] = [u \in DOMAIN left[dst] \cup newUids |->
                            IF u \in newUids
                            THEN boxes[src][moved[u - next[dst] + 1]]
                            ELSE left[dst][u]]],
         next |-> [next EXCEPT ![dst] = @ + n]]

\* The folders of the server in the runs that name folders.
ServerFolders == {"INBOX", "Archive", EMAIL_PROVIDERS["gmail"].trash_folder}

----------------------------------------------------------------------------
(* imap-client.ts: pure helpers *)

\* [...searchResult].sort((a, b) => b - a)
RECURSIVE SortDesc(_)
SortDesc(S) ==
    IF S = {} THEN << >>
    ELSE LET m == SetMax(S) IN <<m>> \o SortDesc(S \ {m})

\* ToIntegerOrInfinity of the number k / LimitDenominator: truncation
\* towards zero.
ToInteger(k) ==
    IF k >= 0 THEN k \div LimitDenominator ELSE -((-k) \div LimitDenominator)

\* Array.prototype.slice(0, end) where end is the number k / LimitDenominator:
\* a negative end counts from the end of the array.
Slice(arr, k) ==
    LET e == ToInteger(k)
        final == IF e < 0 THEN Max(Len(arr) + e, 0) ELSE Min(e, Len(arr))
    IN  SubSeq(arr, 1, final)

\* imap-client.ts:204-208, the search object of listEmails
listSearchCriteria(unreadOnly) ==
    IF unreadOnly THEN [unseen |-> TRUE] ELSE [all |-> TRUE]

\* The search object with no key.
NoKeys == << >>

\* new Date(str) for a date written YYYY-MM-DD: the day it names, counted
\* from the last day of 2023.
NewDate(str) ==
    CASE str = "2024-01-01" -> 1
      [] str = "2024-01-02" -> 2
      [] str = "2024-01-03" -> 3

\* Mutant: the keyword is searched in every field, whatever searchIn says.
keywordQueryAnyField(query, searchIn) ==
    [or |-> <<[subject |-> query], [from |-> query],
              [to |-> query], [body |-> query]>>]

\* imap-client.ts:483-505: the keys that the keyword sets
keywordQuery(query, searchIn) ==
    CASE searchIn = "subject" -> [subject |-> query]
      [] searchIn = "from" -> [from |-> query]
      [] searchIn = "to" -> [to |-> query]
      [] searchIn = "body" -> [body |-> query]
      [] OTHER -> [or |-> <<[subject |-> query], [from |-> query],
                            [to |-> query], [body |-> query]>>]

\* imap-client.ts:478-530
buildSearchQuery(criteria) ==
    LET query ==
            (IF Falsy(criteria.query) THEN NoKeys
             ELSE keywordQuery(criteria.query[1], OrDefault(criteria.searchIn, "all")))
            @@ (IF Falsy(criteria.dateFrom) THEN NoKeys
                ELSE [since |-> NewDate(criteria.dateFrom[1])])
            @@ (IF Falsy(criteria.dateTo) THEN NoKeys
                ELSE [before |-> NewDate(criteria.dateTo[1])])
            @@ (IF criteria.unreadOnly = Some(TRUE) THEN [unseen |-> TRUE] ELSE NoKeys)
            @@ (IF criteria.flaggedOnly = Some(TRUE) THEN [flagged |-> TRUE] ELSE NoKeys)
    IN  IF DOMAIN query = {} THEN [all |-> TRUE] ELSE query

\* imap-client.ts:535-566
parseEmailSummary(uid, msg) ==
    [uid |-> uid,
     seen |-> "Seen" \in msg.flags,
     flagged |-> "Flagged" \in msg.flags]

----------------------------------------------------------------------------
(* Tool handlers: the inputs they accept and the call they make first. *)

NoLock == "<none>"

Whole(n) == n * LimitDenominator

LimitInputs ==
    IF scenario = "listing"
    THEN {undefined, Some(Whole(150))}
         \cup {Some(k) : k \in (-LimitDenominator)..Whole(MaxUid)}
    ELSE {undefined}

FolderInputs ==
    IF scenario = "listing" THEN {undefined} ELSE {undefined, Some("Nope")}

\* The folders a one-at-a-time run names as the source of a deletion and of
\* the listing that follows it: INBOX (the default) and the trash folder of
\* the server.
SourceInputs ==
    IF scenario = "sequence"
    THEN {undefined, Some(EMAIL_PROVIDERS["gmail"].trash_folder)}
    ELSE {undefined}

NopeInputs ==
    IF scenario = "sequence" THEN {undefined, Some("Nope")} ELSE {undefined}

BatchInputs(one) ==
    IF scenario = "sequence" THEN {one, <<1, 2>>} ELSE {one}

ListingTools == {"list_emails", "search_emails"}

ImapTools ==
    ListingTools \cup
    {"get_email_detail", "get_attachments", "mark_emails", "flag_email",
     "delete_emails", "move_emails"}

SendTools == {"send_email", "reply_email", "forward_email", "test_connection"}

\* The tools of the runs with an endpoint that may stop responding.
LiveTools ==
    {"list_emails", "get_email_detail", "mark_emails", "delete_emails",
     "move_emails", "forward_email"}

Tools ==
    CASE scenario = "listing" -> ListingTools
      [] scenario = "sequence" -> ImapTools
      [] scenario = "delivery" -> SendTools
      [] scenario = "dispatch" -> ImapTools \cup SendTools \cup {"list_folders"}
      [] scenario = "folders" -> {"list_folders"}
      [] scenario = "liveness" -> LiveTools
      [] OTHER -> ImapTools \cup {"send_email", "forward_email"}

\* The input schemas (list.ts:52-68, search.ts:20-54, read.ts:20-27 and
\* 113-120, modify.ts, send.ts:20-53 and 233-252), narrowed to a few values.
ToolInputs(t) ==
    CASE t = "list_emails" ->
           [folder : FolderInputs \cup SourceInputs, limit : LimitInputs,
            unread_only : IF scenario = "sequence" THEN {undefined}
                          ELSE {undefined, Some(TRUE)}]
      [] t = "search_emails" ->
           [folder : NopeInputs, limit : LimitInputs,
            query : {undefined}, search_in : {undefined},
            date_from : {undefined}, date_to : {undefined},
            unread_only : IF scenario = "sequence" THEN {undefined}
                          ELSE {undefined, Some(TRUE)},
            flagged_only : IF scenario = "listing" THEN {undefined, Some(TRUE)}
                           ELSE {undefined}]
      [] t = "get_email_detail" -> [folder : FolderInputs, uid : {1, MaxUid}]
      [] t = "get_attachments" -> [folder : NopeInputs, uid : {1}]
      [] t = "mark_emails" ->
           [folder : {undefined}, uids : {<<1, 2>>},
            mark_as : IF scenario = "sequence" THEN {"read"} ELSE {"read", "unread"}]
      [] t = "flag_email" -> [folder : {undefined}, uid : {2}, set_flag : BOOLEAN]
      [] t = "delete_emails" ->
           [folder : SourceInputs, uids : BatchInputs(<<2>>),
            permanent : {undefined, Some(TRUE)}]
      [] t = "move_emails" ->
           [source_folder : {undefined}, uids : BatchInputs(<<1>>),
            target_folder : {"Archive"}]
      [] t = "send_email" -> [to : {<<"you@example.com">>}]
      [] t = "reply_email" ->
           [folder : {undefined}, uid : {1, MaxUid}, reply_all : {undefined, Some(TRUE)}]
      [] t = "test_connection" -> [account_id : {"work"}]
      [] t = "list_folders" -> [account_id : {"work"}]
      [] t = "forward_email" ->
           [folder : {undefined}, uid : {1, 2}, to : {<<"you@example.com">>},
            include_attachments : {undefined, Some(TRUE)}]

\* The client method a handler calls first, with the options it passes:
\* list.ts:83-87, search.ts:79-92, read.ts:42-46 and 135-138,
\* modify.ts:47-51, 108-112, 175-179 and 238-242, send.ts:67-75 and 274-278.
FirstCall(t, inp) ==
    CASE t = "list_emails" ->
           [method |-> "listEmails",
            opts |-> [folder |-> OrDefault(inp.folder, "INBOX"),
                      limit |-> Min(OrDefault(inp.limit, Whole(20)), Whole(100)),
                      unreadOnly |-> OrDefault(inp.unread_only, FALSE)]]
      [] t = "search_emails" ->
           [method |-> "searchEmails",
            opts |-> [folder |-> OrDefault(inp.folder, "INBOX"),
                      limit |-> Min(OrDefault(inp.limit, Whole(50)), Whole(100)),
                      criteria |-> [query |-> inp.query,
                                    searchIn |-> inp.search_in,
                                    dateFrom |-> inp.date_from,
                                    dateTo |-> inp.date_to,
                                    unreadOnly |-> inp.unread_only,
                                    flaggedOnly |-> inp.flagged_only]]]
      [] t = "get_email_detail" ->
           [method |-> "getEmailDetail",
            opts |-> [folder |-> OrDefault(inp.folder, "INBOX"), uid |-> inp.uid,
                      includeAttachmentContent |-> FALSE]]
      [] t = "get_attachments" ->
           [method |-> "getAttachments",
            opts |-> [folder |-> OrDefault(inp.folder, "INBOX"), uid |-> inp.uid]]
      [] t = "mark_emails" ->
           [method |-> "markEmails",
            opts |-> [folder |-> OrDefault(inp.folder, "INBOX"), uids |-> inp.uids,
                      markAs |-> inp.mark_as]]
      [] t = "flag_email" ->
           [method |-> "flagEmail",
            opts |-> [folder |-> OrDefault(inp.folder, "INBOX"), uid |-> inp.uid,
                      setFlag |-> inp.set_flag]]
      [] t = "delete_emails" ->
           [method |-> "deleteEmails",
            opts |-> [folder |-> OrDefault(inp.folder, "INBOX"), uids |-> inp.uids,
                      permanent |-> OrDefault(inp.permanent, FALSE)]]
      [] t = "move_emails" ->
           [method |-> "moveEmails",
            opts |-> [folder |-> OrDefault(inp.source_folder, "INBOX"),
                      uids |-> inp.uids, targetFolder |-> inp.target_folder]]
      [] t = "send_email" ->
           [method |-> "sendEmail", opts |-> [to |-> inp.to, attachments |-> << >>]]
      [] t = "forward_email" ->
           [method |-> "getEmailDetail",
            opts |-> [folder |-> OrDefault(inp.folder, "INBOX"), uid |-> inp.uid,
                      includeAttachmentContent |->
                          OrDefault(inp.include_attachments, FALSE)]]
      [] t = "reply_email" ->
           [method |-> "getEmailDetail",
            opts |-> [folder |-> OrDefault(inp.folder, "INBOX"), uid |-> inp.uid,
                      includeAttachmentContent |-> FALSE]]
      [] t = "test_connection" ->
           [method |-> "ImapClient.testConnection", opts |-> [folder |-> "INBOX"]]
      [] t = "list_folders" -> [method |-> "listFolders", opts |-> undefined]

----------------------------------------------------------------------------
(* Client method calls *)

MailboxMethods ==
    {"listEmails", "getEmailDetail", "searchEmails", "markEmails", "flagEmail",
     "deleteEmails", "moveEmails", "getAttachments"}

SmtpMethods == {"sendEmail", "replyEmail", "forwardEmail"}

TestMethods == {"ImapClient.testConnection", "SmtpClient.testConnection"}

NoCall ==
    [id |-> 0, method |-> "none", opts |-> undefined, client |-> 0,
     sortedUids |-> << >>, message |-> undefined, threw |-> FALSE,
     failedAt |-> "", logoutFailed |-> FALSE, value |-> undefined,
     mailboxes |-> << >>, handled |-> 0, unavailable |-> {}, hungAt |-> ""]

NewCall(id, first) ==
    [NoCall EXCEPT !.id = id, !.method = first.method, !.opts = first.opts]

NewConn(kind, id) ==
    [kind |-> kind, owner |-> id, state |-> "new", lock |-> NoLock,
     logout |-> FALSE, misused |-> FALSE, sent |-> 0, accepted |-> FALSE,
     closes |-> 0, secure |-> TRUE]

\* Mutant: one client object is created once and shared by later calls.
createClientCached(cs, id) ==
    IF cs = << >> THEN Append(cs, NewConn("imap", id)) ELSE cs

\* imap-client.ts:106-133 as called from withConnection (line 141): a new
\* ImapFlow object for this call, with secure: true (line 110); returns the
\* transports after creation.
createClient(cs, id) == Append(cs, [NewConn("imap", id) EXCEPT !.secure = TRUE])

\* smtp-client.ts:65-77 as called at lines 83 and 249, with
\* secure: this.account.smtp_secure (line 69)
createTransporter(cs, id) ==
    Append(cs, [NewConn("smtp", id) EXCEPT !.secure = resolved.value.smtp_secure[1]])

\* A command of call id on transport c: remembers a use by a call that does
\* not own the transport, or a use after it was closed.
Used(conn, id) ==
    [conn EXCEPT !.misused = @ \/ conn.owner # id \/ conn.state = "closed"]

\* Mutant: one lock serves every connection of the process.
LockAvailableShared(c) == \A d \in DOMAIN conns : conns[d].lock = NoLock

\* getMailboxLock resolves at once when this connection holds no lock: the
\* lock belongs to the ImapFlow object created for the call.
LockAvailable(c) == conns[c].lock = NoLock

\* Mutant: the commands run outside the lock's try/finally.
onThrowNoFinally(at) == "logout"

\* Where control goes when the await at position `at` rejects:
\* imap-client.ts:142-147 (connect and the lock acquisition are outside the
\* lock's try) and 200/231-233 (the commands are inside it).
onThrow(at) ==
    IF at \in {"connect", "lock", "status", "list", "folder"}
    THEN "logout" ELSE "release"

\* Mutant: listEmails and searchEmails search without taking the lock.
afterConnectSearchUnlocked(method) ==
    IF method \in {"listEmails", "searchEmails"} THEN "search" ELSE "lock"

\* imap-client.ts:143-144: the operation withConnection runs once connected;
\* the operations of testConnection (lines 453-456) and of listFolders
\* (lines 155-156) take no lock.
afterConnect(method) ==
    CASE method = "ImapClient.testConnection" -> "status"
      [] method = "listFolders" -> "list"
      [] OTHER -> "lock"

\* Mutant: testConnection has no catch.
afterLogoutNoCatch(k) == "return"

\* imap-client.ts:452 and 465: what withConnection raises inside
\* testConnection is caught there; every other method lets it through.
afterLogout(k) ==
    IF k.method = "ImapClient.testConnection" /\ k.threw THEN "catch" ELSE "return"

\* smtp-client.ts:129 and 252: the command issued on the new transport.
afterTransport(method) ==
    IF method = "SmtpClient.testConnection" THEN "verify" ELSE "sendMail"

\* Mutant: the submission's failure is reported as a success.
SendResultAlwaysOk(accepted) ==
    [success |-> TRUE, messageId |-> Some("<id>"), error |-> undefined]

\* smtp-client.ts:131-139: the result of sendEmail.
SendResult(accepted) ==
    IF accepted
    THEN [success |-> TRUE, messageId |-> Some("<id>"), error |-> undefined]
    ELSE [success |-> FALSE, messageId |-> undefined, error |-> Some("sendMail")]

\* imap-client.ts:457-469 and smtp-client.ts:253-258: the result of a
\* connection test; inbox is present for a successful IMAP test only.
TestResult(k, ok, inbox) ==
    IF ok
    THEN [success |-> TRUE, error |-> undefined, inbox |-> inbox]
    ELSE [success |-> FALSE, error |-> Some(k.failedAt), inbox |-> undefined]

\* imap-client.ts:453-463: STATUS INBOX (MESSAGES UNSEEN).
ServerStatus(box) ==
    [total |-> Cardinality(DOMAIN box),
     unseen |-> Cardinality({u \in DOMAIN box : "Seen" \notin box[u].flags})]

\* The first command of a method once the lock is held.
firstCommand(method, opts) ==
    CASE method \in {"listEmails", "searchEmails"} -> "search"
      [] method \in {"getEmailDetail", "getAttachments"} -> "fetchOne"
      [] method \in {"markEmails", "flagEmail"} -> "store"
      [] method = "deleteEmails" -> IF opts.permanent THEN "store" ELSE "move"
      [] method = "moveEmails" -> "move"

Throw(p) ==
    /\ call' = [call EXCEPT ![p].threw = TRUE, ![p].failedAt = pc[p]]
    /\ pc' = [pc EXCEPT ![p] = onThrow(pc[p])]

\* A command the server refuses resolves to false instead of rejecting
\* (imapflow's search, messageFlagsAdd, messageFlagsRemove, messageDelete
\* and messageMove); the methods never read that result.
Refused(k, at) == [k EXCEPT !.failedAt = IF @ = "" THEN at ELSE @]

\* An entry of the journal: the mailboxes when the request arrived, and the
\* call that answered it with the mailboxes at that moment.
Arrived(boxes) ==
    [done |-> FALSE, before |-> boxes, after |-> boxes, call |-> NoCall]

Answered(entry, k, boxes) ==
    [entry EXCEPT !.done = TRUE, !.after = boxes, !.call = k]

RequestQuota == IF scenario = "listing" THEN 1 ELSE MaxRequests

\* The account_id values of the requests.
AccountIds ==
    IF scenario = "dispatch" THEN {"work", "nobody"} ELSE {"work"}

\* Mutant: an unknown id is served with the configured account.
findAccountAny(acc, id) == Some(acc)

\* config.ACCOUNTS.find((a) => a.id === account_id), the first statement
\* of every handler (list.ts:71, send.ts:56, 143 and 262, modify.ts:163).
findAccount(acc, id) == IF acc.id = Some(id) THEN Some(acc) ELSE undefined

\* A tool request arrives and takes the first free slot: the handler looks
\* the account up and answers at once when there is none (list.ts:71-77 and
\* alike), resolves it, which may throw (list.ts:79), and makes its first
\* client call.
Invoke(p) ==
    /\ pc[p] = "idle"
    /\ requests < RequestQuota
    /\ \A q \in Slots : q < p => pc[q] # "idle"
    /\ scenario \in {"sequence", "liveness"} => \A q \in Slots : pc[q] = "idle"
    /\ requests' = requests + 1
    /\ \E id \in AccountIds :
          LET found == findAccount(account, id) IN
          IF found = undefined \/ ~resolveAccount(found[1]).ok
          THEN /\ response' = [response EXCEPT ![p] =
                                 Some(IF found = undefined
                                      THEN "not_found" ELSE "config_error")]
               /\ UNCHANGED <<journal, req, call, pc, nCalls>>
          ELSE /\ journal' = IF scenario = "sequence"
                             THEN Append(journal, Arrived(mailbox)) ELSE journal
               /\ \E t \in Tools : \E inp \in ToolInputs(t) :
                     /\ req' = [req EXCEPT ![p] =
                                  [tool |-> t, account_id |-> id, input |-> inp,
                                   calls |-> {nCalls + 1},
                                   original |-> undefined, attachments |-> undefined,
                                   imapResult |-> undefined]]
                     /\ call' = [call EXCEPT ![p] =
                                   NewCall(nCalls + 1, FirstCall(t, inp))]
                     /\ pc' = [pc EXCEPT ![p] =
                                 IF t = "send_email" THEN "transport" ELSE "create"]
               /\ nCalls' = nCalls + 1
               /\ response' = [response EXCEPT ![p] = undefined]
    /\ UNCHANGED <<resolveVars, scenario, probe, composeVars, serverVars, conns>>

\* imap-client.ts:141
CreateClient(p) ==
    /\ pc[p] = "create"
    /\ conns' = createClient(conns, call[p].id)
    /\ call' = [call EXCEPT ![p].client = Len(conns')]
    /\ pc' = [pc EXCEPT ![p] = "connect"]
    /\ UNCHANGED <<resolveVars, scenario, probe, composeVars, journal, serverVars, requests, nCalls, req, response>>

\* imap-client.ts:143
Connect(p) ==
    /\ pc[p] = "connect"
    /\ LET c == call[p].client IN
       \/ /\ conns' = [conns EXCEPT ![c] = [Used(@, call[p].id) EXCEPT !.state = "open"]]
          /\ pc' = [pc EXCEPT ![p] = afterConnect(call[p].method)]
          /\ UNCHANGED call
       \/ /\ conns' = [conns EXCEPT ![c] = Used(@, call[p].id)]
          /\ Throw(p)
    /\ UNCHANGED <<resolveVars, scenario, probe, composeVars, journal, serverVars, requests, nCalls, req, response>>

\* client.getMailboxLock(folder): selects the folder on this connection
\* (imap-client.ts:199, 252, 284, 326, 352, 378, 406, 426).
GetMailboxLock(p) ==
    /\ pc[p] = "lock"
    /\ LET c == call[p].client IN
       /\ LockAvailable(c)
       /\ \/ /\ call[p].opts.folder \in DOMAIN mailbox
             /\ conns' = [conns EXCEPT ![c] =
                            [Used(@, call[p].id) EXCEPT !.lock = call[p].opts.folder]]
             /\ pc' = [pc EXCEPT ![p] = firstCommand(call[p].method, call[p].opts)]
             /\ UNCHANGED call
          \/ /\ conns' = [conns EXCEPT ![c] = Used(@, call[p].id)]
             /\ Throw(p)
    /\ UNCHANGED <<resolveVars, scenario, probe, composeVars, journal, serverVars, requests, nCalls, req, response>>

\* imap-client.ts:204-216 and 287-295: search by UID, sort descending,
\* slice.  A search the server refuses resolves to false.
Search(p) ==
    /\ pc[p] = "search"
    /\ LET c == call[p].client
           o == call[p].opts
           query == IF call[p].method = "listEmails"
                    THEN listSearchCriteria(o.unreadOnly)
                    ELSE buildSearchQuery(o.criteria)
           searchResult == ServerSearch(mailbox[o.folder], query)
       IN
       /\ conns' = [conns EXCEPT ![c] = Used(@, call[p].id)]
       /\ \/ /\ searchResult = {}
             /\ call' = [call EXCEPT ![p].value = << >>]
             /\ pc' = [pc EXCEPT ![p] = "release"]
          \/ /\ call' = [call EXCEPT ![p].value = << >>, ![p].failedAt = "search"]
             /\ pc' = [pc EXCEPT ![p] = "release"]
          \/ /\ searchResult # {}
             /\ call' = [call EXCEPT ![p].sortedUids =
                            Slice(SortDesc(searchResult), o.limit)]
             /\ pc' = [pc EXCEPT ![p] = "fetch"]
          \/ Throw(p)
    /\ UNCHANGED <<resolveVars, scenario, probe, composeVars, journal, serverVars, requests, nCalls, req, response>>

\* imap-client.ts:219-230 and 297-308: client.fetch(sortedUids, query)
\* without the options argument { uid: true }, so imapflow sends the
\* numbers as message sequence numbers; the summaries are appended in the
\* order in which the server delivers the fetched messages.
Fetch(p) ==
    /\ pc[p] = "fetch"
    /\ LET c == call[p].client
           box == mailbox[call[p].opts.folder]
           fetched == ServerFetchBySeq(box, Range(call[p].sortedUids))
       IN
       /\ conns' = [conns EXCEPT ![c] = Used(@, call[p].id)]
       /\ \/ \E order \in Orders(fetched) :
                /\ call' = [call EXCEPT ![p].value =
                              [i \in DOMAIN order |->
                                  parseEmailSummary(order[i], box[order[i]])]]
                /\ pc' = [pc EXCEPT ![p] = "release"]
          \/ Throw(p)
    /\ UNCHANGED <<resolveVars, scenario, probe, composeVars, journal, serverVars, requests, nCalls, req, response>>

\* imap-client.ts:255-263 and 428-433: client.fetchOne(uid.toString(),
\* query), again without { uid: true } in the options argument.
FetchOne(p) ==
    /\ pc[p] = "fetchOne"
    /\ LET c == call[p].client
           box == mailbox[call[p].opts.folder]
           fetched == ServerFetchBySeq(box, {call[p].opts.uid})
       IN
       /\ conns' = [conns EXCEPT ![c] = Used(@, call[p].id)]
       /\ \/ /\ fetched = {}
             /\ call' = [call EXCEPT ![p].value =
                           IF call[p].method = "getEmailDetail"
                           THEN undefined ELSE << >>]
             /\ pc' = [pc EXCEPT ![p] = "release"]
          \/ /\ fetched # {}
             /\ \E u \in fetched :
                   call' = [call EXCEPT ![p].message =
                              Some([uid |-> u, msg |-> box[u]])]
             /\ pc' = [pc EXCEPT ![p] = "parse"]
          \/ Throw(p)
    /\ UNCHANGED <<resolveVars, scenario, probe, composeVars, journal, serverVars, requests, nCalls, req, response>>

\* imap-client.ts:643-662
extractAttachments(msg, includeContent) ==
    IF msg.att
    THEN <<[filename |-> "a.pdf", content |-> IF includeContent THEN Some("QQ==") ELSE undefined]>>
    ELSE << >>

\* imap-client.ts:266-267 and 435-436: simpleParser, then the result object.
Parse(p) ==
    /\ pc[p] = "parse"
    /\ LET m == call[p].message[1] IN
       \/ /\ call' = [call EXCEPT ![p].value =
                        IF call[p].method = "getEmailDetail"
                        THEN Some([uid |-> m.uid,
                                   seen |-> "Seen" \in m.msg.flags,
                                   flagged |-> "Flagged" \in m.msg.flags,
                                   attachments |->
                                       extractAttachments(m.msg,
                                           call[p].opts.includeAttachmentContent)])
                        ELSE extractAttachments(m.msg, TRUE)]
          /\ pc' = [pc EXCEPT ![p] = "release"]
       \/ Throw(p)
    /\ UNCHANGED <<resolveVars, scenario, probe, composeVars, journal, serverVars, conns, requests, nCalls, req, response>>

\* imap-client.ts:328-334, 354-360 and 382: messageFlagsAdd / Remove by UID.
Store(p) ==
    /\ pc[p] = "store"
    /\ LET c == call[p].client
           o == call[p].opts
           m == call[p].method
           uids == IF m = "flagEmail" THEN {o.uid} ELSE Range(o.uids)
           flag == CASE m = "markEmails" -> "Seen"
                     [] m = "flagEmail" -> "Flagged"
                     [] m = "deleteEmails" -> "Deleted"
           add == CASE m = "markEmails" -> o.markAs = "read"
                    [] m = "flagEmail" -> o.setFlag
                    [] m = "deleteEmails" -> TRUE
       IN
       /\ conns' = [conns EXCEPT ![c] = Used(@, call[p].id)]
       /\ \/ /\ mailbox' = [mailbox EXCEPT ![o.folder] = ServerStore(@, uids, flag, add)]
             /\ IF m = "deleteEmails"
                THEN /\ pc' = [pc EXCEPT ![p] = "expunge"]
                     /\ UNCHANGED call
                ELSE /\ pc' = [pc EXCEPT ![p] = "release"]
                     /\ call' = [call EXCEPT ![p].value =
                                   IF m = "flagEmail" THEN [success |-> TRUE]
                                   ELSE [success |-> TRUE, count |-> Len(o.uids)]]
          \/ /\ UNCHANGED mailbox
             /\ IF m = "deleteEmails"
                THEN /\ pc' = [pc EXCEPT ![p] = "expunge"]
                     /\ call' = [call EXCEPT ![p] = Refused(@, "store")]
                ELSE /\ pc' = [pc EXCEPT ![p] = "release"]
                     /\ call' = [call EXCEPT ![p] =
                                   [Refused(@, "store") EXCEPT !.value =
                                       IF m = "flagEmail" THEN [success |-> TRUE]
                                       ELSE [success |-> TRUE, count |-> Len(o.uids)]]]
          \/ /\ Throw(p)
             /\ UNCHANGED mailbox
    /\ UNCHANGED <<resolveVars, scenario, probe, composeVars, journal, uidNext, requests, nCalls, req, response>>

\* imap-client.ts:383 and 388: messageDelete by UID.
MessageDelete(p) ==
    /\ pc[p] = "expunge"
    /\ LET c == call[p].client
           o == call[p].opts
       IN
       /\ conns' = [conns EXCEPT ![c] = Used(@, call[p].id)]
       /\ \/ /\ mailbox' = [mailbox EXCEPT ![o.folder] = ServerExpunge(@, Range(o.uids))]
             /\ call' = [call EXCEPT ![p].value =
                           [success |-> TRUE, count |-> Len(o.uids)]]
             /\ pc' = [pc EXCEPT ![p] = "release"]
          \/ /\ UNCHANGED mailbox
             /\ call' = [call EXCEPT ![p] =
                           [Refused(@, "expunge") EXCEPT !.value =
                               [success |-> TRUE, count |-> Len(o.uids)]]]
             /\ pc' = [pc EXCEPT ![p] = "release"]
          \/ /\ Throw(p)
             /\ UNCHANGED mailbox
    /\ UNCHANGED <<resolveVars, scenario, probe, composeVars, journal, uidNext, requests, nCalls, req, response>>

\* imap-client.ts:386-388 and 408-409: messageMove by UID, to the resolved
\* trash folder (deleteEmails) or to targetFolder (moveEmails).
MessageMove(p) ==
    /\ pc[p] = "move"
    /\ LET c == call[p].client
           o == call[p].opts
           dst == IF call[p].method = "deleteEmails"
                  THEN resolved.value.trash_folder[1] ELSE o.targetFolder
           after == ServerMove(mailbox, uidNext, o.folder, Range(o.uids), dst)
       IN
       /\ conns' = [conns EXCEPT ![c] = Used(@, call[p].id)]
       /\ \/ /\ dst \in DOMAIN mailbox
             /\ mailbox' = after.boxes
             /\ uidNext' = after.next
             /\ call' = [call EXCEPT ![p].value =
                           [success |-> TRUE, count |-> Len(o.uids)]]
             /\ pc' = [pc EXCEPT ![p] = "release"]
          \/ /\ UNCHANGED <<mailbox, uidNext>>
             /\ call' = [call EXCEPT ![p] =
                           [Refused(@, "move") EXCEPT !.value =
                               [success |-> TRUE, count |-> Len(o.uids)]]]
             /\ pc' = [pc EXCEPT ![p] = "release"]
          \/ /\ Throw(p)
             /\ UNCHANGED <<mailbox, uidNext>>
    /\ UNCHANGED <<resolveVars, scenario, probe, composeVars, journal, requests, nCalls, req, response>>

\* lock.release() in the finally of every mailbox-scoped method
\* (imap-client.ts:231-233, 268-270, 309-311, 335-337, 361-363, 389-391,
\* 410-412, 437-439).
ReleaseLock(p) ==
    /\ pc[p] = "release"
    /\ conns' = [conns EXCEPT ![call[p].client].lock = NoLock]
    /\ pc' = [pc EXCEPT ![p] = "logout"]
    /\ UNCHANGED <<resolveVars, scenario, probe, composeVars, journal, serverVars, requests, nCalls, req, call, response>>

\* imap-client.ts:145-147: logout in the finally of withConnection; its own
\* failure is swallowed, the connection is gone either way.
Logout(p) ==
    /\ pc[p] = "logout"
    /\ conns' = [conns EXCEPT ![call[p].client] =
                    [@ EXCEPT !.logout = TRUE, !.state = "closed", !.closes = @ + 1]]
    /\ \E failed \in BOOLEAN :
          call' = [call EXCEPT ![p].logoutFailed = failed]
    /\ pc' = [pc EXCEPT ![p] = afterLogout(call[p])]
    /\ UNCHANGED <<resolveVars, scenario, probe, composeVars, journal, serverVars, requests, nCalls, req, response>>

\* smtp-client.ts:83 (sendEmail, also reached from forwardEmail at line 236)
CreateTransporter(p) ==
    /\ pc[p] = "transport"
    /\ conns' = createTransporter(conns, call[p].id)
    /\ call' = [call EXCEPT ![p].client = Len(conns')]
    /\ pc' = [pc EXCEPT ![p] = afterTransport(call[p].method)]
    /\ UNCHANGED <<resolveVars, scenario, probe, composeVars, journal, serverVars, requests, nCalls, req, response>>

\* smtp-client.ts:129-139: the submission; a failure is caught and becomes
\* the result.
SendMail(p) ==
    /\ pc[p] = "sendMail"
    /\ LET c == call[p].client IN
       \E accepted \in BOOLEAN :
          /\ conns' = [conns EXCEPT ![c] =
                         [Used(@, call[p].id) EXCEPT
                             !.state = "open", !.sent = @ + 1, !.accepted = accepted]]
          /\ call' = [call EXCEPT ![p] =
                        [(IF accepted THEN @ ELSE Refused(@, "sendMail")) EXCEPT
                            !.value = SendResult(accepted)]]
    /\ pc' = [pc EXCEPT ![p] = "close"]
    /\ UNCHANGED <<resolveVars, scenario, probe, composeVars, journal, serverVars, requests, nCalls, req, response>>

\* smtp-client.ts:140-142
CloseTransporter(p) ==
    /\ pc[p] = "close"
    /\ conns' = [conns EXCEPT ![call[p].client] =
                    [@ EXCEPT !.state = "closed", !.closes = @ + 1]]
    /\ pc' = [pc EXCEPT ![p] = "return"]
    /\ UNCHANGED <<resolveVars, scenario, probe, composeVars, journal, serverVars, requests, nCalls, req, call, response>>

\* imap-client.ts:453-463: client.status('INBOX', ...) with no mailbox lock.
Status(p) ==
    /\ pc[p] = "status"
    /\ LET c == call[p].client IN
       /\ conns' = [conns EXCEPT ![c] = Used(@, call[p].id)]
       /\ \/ /\ call' = [call EXCEPT ![p].value =
                           TestResult(call[p], TRUE, Some(ServerStatus(mailbox["INBOX"])))]
             /\ pc' = [pc EXCEPT ![p] = "logout"]
          \/ Throw(p)
    /\ UNCHANGED <<resolveVars, scenario, probe, composeVars, journal, serverVars, requests, nCalls, req, response>>

\* LIST "" "*": the folders of the server and the parent they hang under,
\* which cannot be selected.
Hierarchy(boxes) ==
    {[path |-> f, noselect |-> FALSE] : f \in DOMAIN boxes}
        \cup {[path |-> "[Gmail]", noselect |-> TRUE]}

\* imap-client.ts:156: client.list(), in the order the server enumerates:
\* any order in the runs of list_folders alone, one order in the others.
List(p) ==
    /\ pc[p] = "list"
    /\ LET c == call[p].client
           all == Orders(Hierarchy(mailbox))
           orders == IF scenario = "folders" THEN all ELSE {CHOOSE o \in all : TRUE}
       IN
       /\ conns' = [conns EXCEPT ![c] = Used(@, call[p].id)]
       /\ \/ \E order \in orders :
                /\ call' = [call EXCEPT ![p].mailboxes = order, ![p].value = << >>]
                /\ pc' = [pc EXCEPT ![p] = "folder"]
          \/ Throw(p)
    /\ UNCHANGED <<resolveVars, scenario, probe, composeVars, journal, serverVars, requests, nCalls, req, response>>

\* Mutant: the status query is not inside a try of its own.
statusCaughtNowhere(method) == FALSE

\* imap-client.ts:165-174: listFolders catches the failure of a status
\* query and goes on.
statusCaught(method) == method = "listFolders"

\* imap-client.ts:158-182: one round of the loop over the mailboxes.
FolderStatus(p) ==
    /\ pc[p] = "folder"
    /\ LET c == call[p].client
           k == call[p]
           mbox == k.mailboxes[k.handled + 1]
           rest == k.handled + 1
           after == IF rest = Len(k.mailboxes) THEN "logout" ELSE "folder"
           status == ServerStatus(mailbox[mbox.path])
       IN
       IF mbox.noselect
       THEN /\ call' = [call EXCEPT ![p].handled = rest]
            /\ pc' = [pc EXCEPT ![p] = after]
            /\ UNCHANGED conns
       ELSE /\ conns' = [conns EXCEPT ![c] = Used(@, k.id)]
            /\ \/ /\ call' = [call EXCEPT
                                 ![p].handled = rest,
                                 ![p].value = Append(@,
                                     [path |-> mbox.path, total |-> status.total,
                                      unseen |-> status.unseen])]
                  /\ pc' = [pc EXCEPT ![p] = after]
               \/ /\ statusCaught(k.method)
                  /\ call' = [call EXCEPT
                                 ![p].handled = rest,
                                 ![p].unavailable = @ \cup {mbox.path},
                                 ![p].value = Append(@,
                                     [path |-> mbox.path, total |-> 0, unseen |-> 0])]
                  /\ pc' = [pc EXCEPT ![p] = after]
               \/ /\ ~statusCaught(k.method)
                  /\ Throw(p)
    /\ UNCHANGED <<resolveVars, scenario, probe, composeVars, journal, serverVars, requests, nCalls, req, response>>

\* imap-client.ts:465-470: the catch of testConnection.
CatchTestError(p) ==
    /\ pc[p] = "catch"
    /\ call' = [call EXCEPT ![p] =
                   [call[p] EXCEPT !.threw = FALSE,
                                   !.value = TestResult(call[p], FALSE, undefined)]]
    /\ pc' = [pc EXCEPT ![p] = "return"]
    /\ UNCHANGED <<resolveVars, scenario, probe, composeVars, journal, serverVars, conns, requests, nCalls, req, response>>

\* smtp-client.ts:251-258: transporter.verify() and the catch around it.
Verify(p) ==
    /\ pc[p] = "verify"
    /\ LET c == call[p].client IN
       /\ conns' = [conns EXCEPT ![c] = [Used(@, call[p].id) EXCEPT !.state = "open"]]
       /\ \E ok \in BOOLEAN :
             LET k == IF ok THEN call[p] ELSE Refused(call[p], "verify")
             IN  call' = [call EXCEPT ![p] =
                            [k EXCEPT !.value = TestResult(k, ok, undefined)]]
    /\ pc' = [pc EXCEPT ![p] = "close"]
    /\ UNCHANGED <<resolveVars, scenario, probe, composeVars, journal, serverVars, requests, nCalls, req, response>>

\* Mutant: the client is created without timeouts.
timeoutForNone(at) == undefined

\* imap-client.ts:117-119: the timeout that ends a wait at position `at`
\* when the endpoint stops responding: connectionTimeout (and
\* greetingTimeout) while connecting, socketTimeout for a command and for
\* the logout.  The parse is local.
timeoutFor(at) ==
    CASE at = "connect" -> Some("connectionTimeout")
      [] at \in {"lock", "search", "fetch", "fetchOne", "store", "expunge",
                 "move", "logout"} -> Some("socketTimeout")
      [] OTHER -> undefined

\* The endpoint stops responding while the call waits for it.
Hang(p) ==
    /\ pc[p] \in {"connect", "lock", "search", "fetch", "fetchOne", "store",
                   "expunge", "move", "logout"}
    /\ call' = [call EXCEPT ![p].hungAt = pc[p]]
    /\ pc' = [pc EXCEPT ![p] = "hung"]
    /\ conns' = IF pc[p] = "logout"
                THEN [conns EXCEPT ![call[p].client].logout = TRUE]
                ELSE [conns EXCEPT ![call[p].client] = Used(@, call[p].id)]
    /\ UNCHANGED <<resolveVars, scenario, probe, composeVars, journal, serverVars, requests, nCalls, req, response>>

\* The timeout fires: imapflow closes the connection and rejects the
\* pending await; a rejected logout is swallowed (imap-client.ts:146).
TimeOut(p) ==
    /\ pc[p] = "hung"
    /\ timeoutFor(call[p].hungAt) # undefined
    /\ LET k == call[p] IN
       IF k.hungAt = "logout"
       THEN /\ call' = [call EXCEPT ![p].logoutFailed = TRUE, ![p].hungAt = ""]
            /\ conns' = [conns EXCEPT ![k.client] =
                            [@ EXCEPT !.state = "closed", !.closes = @ + 1]]
            /\ pc' = [pc EXCEPT ![p] = afterLogout(k)]
       ELSE /\ call' = [call EXCEPT ![p].threw = TRUE, ![p].failedAt = k.hungAt,
                                    ![p].hungAt = ""]
            /\ pc' = [pc EXCEPT ![p] = onThrow(k.hungAt)]
            /\ UNCHANGED conns
    /\ UNCHANGED <<resolveVars, scenario, probe, composeVars, journal, serverVars, requests, nCalls, req, response>>

\* The handler answers the request; its locals are gone.
Respond(p, kind) ==
    /\ response' = [response EXCEPT ![p] = Some(kind)]
    /\ pc' = [pc EXCEPT ![p] = "idle"]
    /\ call' = [call EXCEPT ![p] = NoCall]
    /\ req' = [req EXCEPT ![p] = undefined]
    /\ journal' = IF scenario = "sequence"
                  THEN [journal EXCEPT ![Len(journal)] = Answered(@, call[p], mailbox)]
                  ELSE journal
    /\ UNCHANGED nCalls

\* Mutant: reply_email does not look at what the fetch returned.
originalMissingForwardOnly(tool, value) ==
    tool = "forward_email" /\ value = undefined

\* send.ts:160 and 280: if (!original)
originalMissing(tool, value) == value = undefined

\* The handler makes its next client call.
CallNext(p, first, at) ==
    /\ call' = [call EXCEPT ![p] = NewCall(nCalls + 1, first)]
    /\ nCalls' = nCalls + 1
    /\ pc' = [pc EXCEPT ![p] = at]
    /\ UNCHANGED <<response, journal>>

\* The call returns or raises to the handler.  The mailbox handlers and
\* send_email answer at once (the try/catch of list.ts:82-125 and alike);
\* forward_email (send.ts:272-367) goes on to getAttachments on the same
\* ImapClient and to SmtpClient.forwardEmail, reply_email (send.ts:153-221)
\* to SmtpClient.replyEmail, test_connection (send.ts:393-434) to the SMTP
\* test.  The first fetch of reply_email and forward_email is outside their
\* try/catch.
Return(p) ==
    /\ pc[p] = "return"
    /\ LET r == req[p]
           k == call[p]
           forward(atts) ==
               [method |-> "forwardEmail",
                opts |-> [to |-> r.input.to, attachments |-> atts]]
           reply ==
               [method |-> "replyEmail",
                opts |-> [replyAll |-> OrDefault(r.input.reply_all, FALSE),
                          attachments |-> << >>]]
       IN
       CASE r.tool = "forward_email" /\ k.method = "getEmailDetail" ->
               IF k.threw
               THEN Respond(p, "exception")
               ELSE IF originalMissing(r.tool, k.value)
               THEN Respond(p, "error")
               ELSE IF /\ r.input.include_attachments = Some(TRUE)
                       /\ Len(k.value[1].attachments) > 0
               THEN /\ req' = [req EXCEPT ![p].original = k.value,
                                          ![p].calls = @ \cup {nCalls + 1}]
                    /\ CallNext(p,
                          [method |-> "getAttachments",
                           opts |-> [folder |-> OrDefault(r.input.folder, "INBOX"),
                                     uid |-> r.input.uid]],
                          "create")
               ELSE /\ req' = [req EXCEPT ![p].original = k.value,
                                          ![p].calls = @ \cup {nCalls + 1}]
                    /\ CallNext(p, forward(<< >>), "transport")
         [] r.tool = "forward_email" /\ k.method = "getAttachments" ->
               IF k.threw
               THEN Respond(p, "exception")
               ELSE /\ req' = [req EXCEPT ![p].attachments = Some(k.value),
                                          ![p].calls = @ \cup {nCalls + 1}]
                    /\ CallNext(p,
                          forward(SelectSeq(k.value, LAMBDA a : a.content # undefined)),
                          "transport")
         [] r.tool = "reply_email" /\ k.method = "getEmailDetail" ->
               IF k.threw
               THEN Respond(p, "exception")
               ELSE IF originalMissing(r.tool, k.value)
               THEN Respond(p, "error")
               ELSE /\ req' = [req EXCEPT ![p].original = k.value,
                                          ![p].calls = @ \cup {nCalls + 1}]
                    /\ CallNext(p, reply, "transport")
         [] r.tool = "test_connection" /\ k.method = "ImapClient.testConnection" ->
               /\ req' = [req EXCEPT ![p].imapResult = Some(k.value),
                                     ![p].calls = @ \cup {nCalls + 1}]
               /\ CallNext(p,
                     [method |-> "SmtpClient.testConnection", opts |-> undefined],
                     "transport")
         [] r.tool = "test_connection" /\ k.method = "SmtpClient.testConnection" ->
               Respond(p, IF r.imapResult[1].success /\ k.value.success
                          THEN "ok" ELSE "error")
         [] k.method \in SmtpMethods ->
               Respond(p, IF k.value.success THEN "ok" ELSE "error")
         [] OTHER -> Respond(p, IF k.threw THEN "error" ELSE "ok")
    /\ UNCHANGED <<resolveVars, scenario, probe, composeVars, serverVars, conns, requests>>

Step(p) ==
    \/ Invoke(p) \/ CreateClient(p) \/ Connect(p) \/ GetMailboxLock(p)
    \/ Search(p) \/ Fetch(p) \/ FetchOne(p) \/ Parse(p) \/ Store(p)
    \/ MessageDelete(p) \/ MessageMove(p) \/ ReleaseLock(p) \/ Logout(p)
    \/ CreateTransporter(p) \/ SendMail(p) \/ CloseTransporter(p) \/ Return(p)

----------------------------------------------------------------------------
(* Specifications *)

ConfiguredAccount ==
    [id |-> Some("work"), email |-> Some("me@example.com"),
     password |-> Some("secret"), provider |-> "gmail",
     imap_server |-> undefined, imap_port |-> undefined,
     smtp_server |-> undefined, smtp_port |-> undefined,
     smtp_secure |-> undefined, trash_folder |-> undefined,
     requiresImapId |-> undefined]

\* No message is being composed.
NoDraft ==
    /\ original = undefined
    /\ mail = << >>

\* No request has arrived yet.
Idle ==
    /\ conns = << >>
    /\ requests = 0
    /\ nCalls = 0
    /\ req = [p \in Slots |-> undefined]
    /\ call = [p \in Slots |-> NoCall]
    /\ pc = [p \in Slots |-> "idle"]
    /\ response = [p \in Slots |-> undefined]
    /\ journal = << >>

\* No search is being tried.
NoProbe == probe = undefined

Quiet == Idle /\ NoDraft /\ NoProbe

Configured ==
    /\ account = ConfiguredAccount
    /\ resolved = resolveAccount(account)
    /\ resolved2 = undefined
    /\ rpc = "resolved"

\* One list or search request against every small INBOX, with every limit.
InitListing ==
    /\ Configured
    /\ Quiet
    /\ scenario = "listing"
    /\ \E U \in SUBSET (1..MaxUid) :
          mailbox \in [{"INBOX"} -> [U -> [flags : SUBSET {"Seen", "Flagged"}, att : {FALSE}]]]
    /\ uidNext = [f \in {"INBOX"} |-> MaxUid + 1]

ListingStep(p) ==
    \/ Invoke(p) \/ CreateClient(p) \/ Connect(p) \/ GetMailboxLock(p)
    \/ Search(p) \/ Fetch(p) \/ ReleaseLock(p) \/ Logout(p) \/ Return(p)

NextListing == \E p \in Slots : ListingStep(p)

SpecListing == InitListing /\ [][NextListing]_vars

\* Overlapping requests of every tool against one account whose INBOX
\* holds an unread message with an attachment and a read one without.
Init ==
    /\ Configured
    /\ Quiet
    /\ scenario = "sessions"
    /\ mailbox =
          [f \in {"INBOX", "Archive", resolved.value.trash_folder[1]} |->
              IF f = "INBOX"
              THEN (1 :> [flags |-> {}, att |-> TRUE]) @@
                   (2 :> [flags |-> {"Seen"}, att |-> FALSE])
              ELSE << >>]
    /\ uidNext =
          [f \in {"INBOX", "Archive", resolved.value.trash_folder[1]} |->
              IF f = "INBOX" THEN 3 ELSE 1]

Next == \E p \in Slots : Step(p)

Spec == Init /\ [][Next]_vars

\* Overlapping requests of the sending tools and of the connection test
\* against the same account and mailbox.
InitDelivery ==
    /\ Configured
    /\ Quiet
    /\ scenario = "delivery"
    /\ mailbox =
          [f \in ServerFolders |->
              IF f = "INBOX"
              THEN (1 :> [flags |-> {}, att |-> TRUE]) @@
                   (2 :> [flags |-> {"Seen"}, att |-> FALSE])
              ELSE << >>]
    /\ uidNext = [f \in ServerFolders |-> IF f = "INBOX" THEN 3 ELSE 1]

DeliveryStep(p) ==
    \/ Invoke(p) \/ CreateClient(p) \/ Connect(p) \/ GetMailboxLock(p)
    \/ FetchOne(p) \/ Parse(p) \/ Status(p) \/ ReleaseLock(p) \/ Logout(p)
    \/ CatchTestError(p) \/ CreateTransporter(p) \/ SendMail(p) \/ Verify(p)
    \/ CloseTransporter(p) \/ Return(p)

NextDelivery == \E p \in Slots : DeliveryStep(p)

SpecDelivery == InitDelivery /\ [][NextDelivery]_vars

\* Requests, one at a time, against an endpoint that may stop responding at
\* any await.  Every await settles: it completes, fails or is timed out,
\* and the event loop then runs what follows it.
InitLive ==
    /\ Configured
    /\ Quiet
    /\ scenario = "liveness"
    /\ mailbox =
          [f \in ServerFolders |->
              IF f = "INBOX"
              THEN (1 :> [flags |-> {}, att |-> TRUE]) @@
                   (2 :> [flags |-> {"Seen"}, att |-> FALSE])
              ELSE << >>]
    /\ uidNext = [f \in ServerFolders |-> IF f = "INBOX" THEN 3 ELSE 1]

\* What a started request does next.
Settle(p) ==
    \/ CreateClient(p) \/ Connect(p) \/ GetMailboxLock(p) \/ Search(p)
    \/ Fetch(p) \/ FetchOne(p) \/ Parse(p) \/ Store(p) \/ MessageDelete(p)
    \/ MessageMove(p) \/ ReleaseLock(p) \/ Logout(p) \/ Hang(p) \/ TimeOut(p)
    \/ CreateTransporter(p) \/ SendMail(p) \/ CloseTransporter(p) \/ Return(p)

NextLive == \E p \in Slots : Invoke(p) \/ Settle(p)

SpecLive ==
    /\ InitLive
    /\ [][NextLive]_vars
    /\ \A p \in Slots : WF_vars(Settle(p))

\* Overlapping list_folders requests against a server whose INBOX and trash
\* folder hold messages.
InitFolders ==
    /\ Configured
    /\ Quiet
    /\ scenario = "folders"
    /\ mailbox =
          [f \in ServerFolders |->
              CASE f = "INBOX" ->
                     (1 :> [flags |-> {}, att |-> TRUE]) @@
                     (2 :> [flags |-> {"Seen"}, att |-> FALSE])
                [] f = "Archive" -> << >>
                [] OTHER -> (2 :> [flags |-> {"Flagged"}, att |-> FALSE])]
    /\ uidNext = [f \in ServerFolders |-> MaxUid + 1]

FolderStep(p) ==
    \/ Invoke(p) \/ CreateClient(p) \/ Connect(p) \/ List(p)
    \/ FolderStatus(p) \/ Logout(p) \/ Return(p)

NextFolders == \E p \in Slots : FolderStep(p)

SpecFolders == InitFolders /\ [][NextFolders]_vars

\* Overlapping requests of every tool that name the configured account or
\* an account that is not configured, for a configuration whose one
\* account resolves and for one whose account is a custom provider without
\* an IMAP host.
InitDispatch ==
    /\ Quiet
    /\ scenario = "dispatch"
    /\ account \in {ConfiguredAccount,
                     [ConfiguredAccount EXCEPT
                         !.provider = "custom",
                         !.smtp_server = Some("mail.example.com")]}
    /\ resolved = resolveAccount(account)
    /\ resolved2 = undefined
    /\ rpc = "resolved"
    /\ mailbox =
          [f \in ServerFolders |->
              IF f = "INBOX"
              THEN (1 :> [flags |-> {}, att |-> TRUE]) @@
                   (2 :> [flags |-> {"Seen"}, att |-> FALSE])
              ELSE << >>]
    /\ uidNext = [f \in ServerFolders |-> IF f = "INBOX" THEN 3 ELSE 1]

DispatchStep(p) ==
    \/ Invoke(p) \/ CreateClient(p) \/ Connect(p) \/ GetMailboxLock(p)
    \/ Search(p) \/ Fetch(p) \/ FetchOne(p) \/ Parse(p) \/ Store(p)
    \/ MessageDelete(p) \/ MessageMove(p) \/ Status(p) \/ List(p)
    \/ FolderStatus(p) \/ ReleaseLock(p) \/ Logout(p) \/ CatchTestError(p)
    \/ CreateTransporter(p) \/ SendMail(p) \/ Verify(p)
    \/ CloseTransporter(p) \/ Return(p)

NextDispatch == \E p \in Slots : DispatchStep(p)

SpecDispatch == InitDispatch /\ [][NextDispatch]_vars

----------------------------------------------------------------------------
(* Composing a reply or a forward.  A string is the sequence of its pieces: *)
(* single characters for a subject; for an address list the names and the  *)
(* addresses are one piece each, and "<", ">", "," and " " are pieces of   *)
(* their own.  Names and addresses hold none of those four characters.     *)

RECURSIVE Join(_, _)
\* Array.prototype.join
Join(list, sep) ==
    IF list = << >> THEN << >>
    ELSE IF Len(list) = 1 THEN list[1]
    ELSE list[1] \o sep \o Join(Tail(list), sep)

RECURSIVE Split(_, _)
\* String.prototype.split with a one-character separator
Split(str, sep) ==
    LET at == {i \in DOMAIN str : str[i] = sep} IN
    IF at = {} THEN <<str>>
    ELSE LET i == CHOOSE x \in at : \A y \in at : x <= y
         IN  <<SubSeq(str, 1, i - 1)>> \o Split(SubSeq(str, i + 1, Len(str)), sep)

\* String.prototype.trim
Trim(str) ==
    LET solid == {i \in DOMAIN str : str[i] # " "} IN
    IF solid = {} THEN << >>
    ELSE SubSeq(str, CHOOSE x \in solid : \A y \in solid : x <= y,
                     CHOOSE x \in solid : \A y \in solid : x >= y)

\* String.prototype.toLowerCase on the letters of the subjects
ToLowerCase(str) ==
    [i \in DOMAIN str |->
        CASE str[i] = "R" -> "r"
          [] str[i] = "E" -> "e"
          [] str[i] = "F" -> "f"
          [] str[i] = "W" -> "w"
          [] str[i] = "D" -> "d"
          [] OTHER -> str[i]]

\* String.prototype.startsWith
StartsWith(str, prefix) ==
    Len(str) >= Len(prefix) /\ SubSeq(str, 1, Len(prefix)) = prefix

\* imap-client.ts:604-617
formatAddress(addresses) ==
    LET one(addr) ==
            IF addr.name \notin {undefined, Some("")} /\ addr.address \notin {undefined, Some("")}
            THEN <<addr.name[1], " ", "<", addr.address[1], ">">>
            ELSE LET only == IF addr.address # undefined THEN addr.address[1]
                             ELSE IF addr.name # undefined THEN addr.name[1]
                             ELSE ""
                 IN  IF only = "" THEN << >> ELSE <<only>>
        each == [i \in DOMAIN addresses |-> one(addresses[i])]
    IN  Join(SelectSeq(each, LAMBDA str : str # << >>), <<",", " ">>)

\* imap-client.ts:571-599, the fields a reply or a forward reads; the
\* placeholder subject is written in ASCII.
parseEmailDetail(envelope) ==
    [from |-> formatAddress(envelope.from),
     to |-> formatAddress(envelope.to),
     cc |-> formatAddress(envelope.cc),
     subject |-> OrDefault(envelope.subject, <<"(", "-", ")">>),
     messageId |-> OrDefault(envelope.messageId, "")]

\* smtp-client.ts:269-274: the text between the first "<" that opens a
\* non-empty bracket and the ">" that closes it, else the trimmed string.
extractEmailAddress(address) ==
    LET closing(i) == {j \in DOMAIN address : j > i /\ address[j] = ">"}
        first(S) == CHOOSE x \in S : \A y \in S : x <= y
        opens == {i \in DOMAIN address :
                     /\ address[i] = "<"
                     /\ closing(i) # {}
                     /\ first(closing(i)) > i + 1}
    IN  IF opens = {} THEN Trim(address)
        ELSE SubSeq(address, first(opens) + 1, first(closing(first(opens))) - 1)

\* Mutant: the prefix is looked for without lowering the case.
hasPrefixExact(subject, prefix) ==
    StartsWith(subject, prefix)

\* smtp-client.ts:187 and 229
hasPrefix(subject, prefix) ==
    StartsWith(ToLowerCase(subject), ToLowerCase(prefix))

\* smtp-client.ts:186-189 and 228-231
prefixed(subject, prefix) ==
    IF ~hasPrefix(subject, prefix) THEN prefix \o <<" ">> \o subject ELSE subject

\* smtp-client.ts:166-202: the options replyEmail hands to sendEmail.
replyEmail(orig, replyAll, own) ==
    LET to == <<extractEmailAddress(orig.from)>>
        originalTo == [i \in DOMAIN Split(orig.to, ",") |-> Trim(Split(orig.to, ",")[i])]
        originalCc == [i \in DOMAIN Split(orig.cc, ",") |-> Trim(Split(orig.cc, ",")[i])]
        emails == [i \in DOMAIN (originalTo \o originalCc) |->
                      extractEmailAddress((originalTo \o originalCc)[i])]
        cc == IF replyAll
              THEN SelectSeq(emails,
                       LAMBDA email : email # << >> /\ email # own /\ email # to[1])
              ELSE << >>
    IN  [to |-> to,
         cc |-> IF Len(cc) > 0 THEN Some(cc) ELSE undefined,
         subject |-> prefixed(orig.subject, <<"R", "e", ":">>),
         inReplyTo |-> Some(orig.messageId),
         references |-> Some(orig.messageId),
         attachments |-> undefined]

\* smtp-client.ts:225-242: the options forwardEmail hands to sendEmail.
forwardEmail(orig, to, attachments) ==
    [to |-> to,
     cc |-> undefined,
     subject |-> prefixed(orig.subject, <<"F", "w", "d", ":">>),
     inReplyTo |-> undefined,
     references |-> undefined,
     attachments |-> attachments]

\* Mutant: the threading headers are set whatever the identifier is.
headerAlways(value) == value

\* smtp-client.ts:112-117: a header is set only for a non-empty value.
header(value) ==
    IF value # undefined /\ value[1] # "" THEN value ELSE undefined

\* smtp-client.ts:87-126: the payload sendEmail submits.
mailOptions(options, own) ==
    [from |-> own,
     to |-> Join(options.to, <<",", " ">>),
     subject |-> options.subject,
     cc |-> IF options.cc # undefined /\ Len(options.cc[1]) > 0
            THEN Some(Join(options.cc[1], <<",", " ">>)) ELSE undefined,
     inReplyTo |-> header(options.inReplyTo),
     references |-> header(options.references),
     attachments |-> IF options.attachments # undefined /\ Len(options.attachments[1]) > 0
                     THEN options.attachments ELSE undefined]

\* The acting account's address, as a string of one piece.
Own == <<resolved.value.email[1]>>

AddressEntries ==
    {[name |-> undefined, address |-> Some("me@example.com")],
     [name |-> Some("Me"), address |-> Some("me@example.com")],
     [name |-> Some("Ann"), address |-> Some("ann@example.com")],
     [name |-> undefined, address |-> Some("bob@example.com")]}

SubjectChars == {"r", "R", "e", "E", ":", "f", "W", "d", " "}

SeqsOf(S, lo, hi) == UNION {[1..n -> S] : n \in lo..hi}

\* Originals with every sender and every To and Cc list, one subject.
AddressedEnvelopes ==
    [from : SeqsOf(AddressEntries, 1, 1),
     to : SeqsOf(AddressEntries, 1, MaxRecipients),
     cc : SeqsOf(AddressEntries, 0, MaxRecipients),
     subject : {Some(<<"H", "i">>)},
     messageId : {undefined, Some("<m1@example.com>")}]

\* Originals with every subject, and with none.
TitledEnvelopes ==
    [from : {<<[name |-> Some("Ann"), address |-> Some("ann@example.com")]>>},
     to : {<<[name |-> undefined, address |-> Some("me@example.com")]>>},
     cc : {<< >>},
     subject : {undefined} \cup {Some(str) : str \in SeqsOf(SubjectChars, 0, MaxSubject)},
     messageId : {Some("<m1@example.com>")}]

InitCompose ==
    /\ Configured
    /\ Idle
    /\ NoProbe
    /\ scenario = "compose"
    /\ mailbox = [f \in {"INBOX"} |-> << >>]
    /\ uidNext = [f \in {"INBOX"} |-> 1]
    /\ mail = << >>
    /\ \/ \E e \in AddressedEnvelopes : \E all \in BOOLEAN :
             original = Some([envelope |-> e, kind |-> "reply", replyAll |-> all])
       \/ \E e \in TitledEnvelopes : \E kind \in {"reply", "forward"} :
             original = Some([envelope |-> e, kind |-> kind, replyAll |-> FALSE])

\* What sendEmail is given and what it submits.
Composed(options) == [options |-> options, payload |-> mailOptions(options, Own[1])]

\* send.ts:176-189 and smtp-client.ts:148-203
ReplyEmail ==
    /\ original # undefined
    /\ original[1].kind = "reply"
    /\ mail = << >>
    /\ mail' = <<Composed(replyEmail(parseEmailDetail(original[1].envelope),
                                     original[1].replyAll, Own))>>
    /\ UNCHANGED <<resolveVars, scenario, probe, journal, serverVars, conns, requests, nCalls, req, call, pc, response, original>>

\* send.ts:318-330 and smtp-client.ts:208-243
ForwardEmail ==
    /\ original # undefined
    /\ original[1].kind = "forward"
    /\ mail = << >>
    /\ mail' = <<Composed(forwardEmail(parseEmailDetail(original[1].envelope),
                                       <<<<"you@example.com">>>>, undefined))>>
    /\ UNCHANGED <<resolveVars, scenario, probe, journal, serverVars, conns, requests, nCalls, req, call, pc, response, original>>

\* The message that was composed is replied to, or forwarded, in its turn.
ComposeAgain ==
    /\ Len(mail) = 1
    /\ LET orig == [parseEmailDetail(original[1].envelope) EXCEPT
                       !.subject = mail[1].payload.subject]
       IN  mail' = Append(mail,
                     IF original[1].kind = "reply"
                     THEN Composed(replyEmail(orig, original[1].replyAll, Own))
                     ELSE Composed(forwardEmail(orig, <<<<"you@example.com">>>>, undefined)))
    /\ UNCHANGED <<resolveVars, scenario, probe, journal, serverVars, conns, requests, nCalls, req, call, pc, response, original>>

NextCompose == ReplyEmail \/ ForwardEmail \/ ComposeAgain

SpecCompose == InitCompose /\ [][NextCompose]_vars

----------------------------------------------------------------------------
(* Claims about composing, checked under SpecCompose. *)

Replied == original # undefined /\ original[1].kind = "reply" /\ Len(mail) >= 1

\* C17: for every original (any from, to and cc lists, also one sent by the
\* acting account itself and one whose to and cc repeat an address) a reply
\* with replyAll=true has the account's own address neither in its
\* recipient list nor in its cc list, and its primary recipient is not in
\* cc; with replyAll=false the recipient list is exactly the original
\* sender and cc is empty.
C17_ReplyRecipients ==
    Replied =>
        LET o == mail[1].options
            e == original[1].envelope
            ccs == IF o.cc = undefined THEN {} ELSE Range(o.cc[1])
        IN  IF original[1].replyAll
            THEN /\ Own \notin Range(o.to)
                 /\ Own \notin ccs
                 /\ o.to[1] \notin ccs
            ELSE /\ o.to = <<<<e.from[1].address[1]>>>>
                 /\ o.cc = undefined
                 /\ mail[1].payload.cc = undefined

\* C18, as stated: for every original, also one without a message
\* identifier (whose identifier is then the empty string), the payload of a
\* reply carries In-Reply-To and References headers that both equal the
\* original's identifier.
C18_HeadersAlwaysCarried ==
    Replied =>
        LET id == parseEmailDetail(original[1].envelope).messageId IN
        /\ mail[1].payload.inReplyTo = Some(id)
        /\ mail[1].payload.references = Some(id)

\* C18, amended: when the original's message identifier is not empty the
\* payload of a reply carries In-Reply-To and References headers that both
\* equal it; when it is the empty string the payload carries neither
\* header.
C18_ThreadingHeaders ==
    Replied =>
        LET id == OrDefault(original[1].envelope.messageId, "") IN
        IF id # ""
        THEN /\ mail[1].payload.inReplyTo = Some(id)
             /\ mail[1].payload.references = Some(id)
        ELSE /\ mail[1].payload.inReplyTo = undefined
             /\ mail[1].payload.references = undefined

C18_Witness ==
    /\ Replied
    /\ original[1].envelope.messageId = undefined
    /\ mail[1].options.inReplyTo = Some("")
    /\ mail[1].payload.inReplyTo = undefined

\* Whether the subject begins with the letters of the prefix in any case.
BeginsAnyCase(subject, letters) ==
    /\ Len(subject) >= Len(letters)
    /\ \A i \in DOMAIN letters : subject[i] \in letters[i]

RePrefix == <<{"r", "R"}, {"e", "E"}, {":"}>>

FwdPrefix == <<{"f", "F"}, {"w", "W"}, {"d", "D"}, {":"}>>

\* C19: the reply subject is the original subject unchanged when that
\* begins with "re:" in any letter case, otherwise "Re: " followed by it;
\* the forward subject likewise with "fwd:" and "Fwd: "; the rule applied
\* to its own output adds no second prefix.
C19_SubjectPrefix ==
    Len(mail) >= 1 =>
        LET subject == parseEmailDetail(original[1].envelope).subject
            reply == original[1].kind = "reply"
            kept == BeginsAnyCase(subject, IF reply THEN RePrefix ELSE FwdPrefix)
            lead == IF reply THEN <<"R", "e", ":", " ">> ELSE <<"F", "w", "d", ":", " ">>
        IN  /\ mail[1].payload.subject = IF kept THEN subject ELSE lead \o subject
            /\ Len(mail) = 2 => mail[2].payload.subject = mail[1].payload.subject

C19_Witness ==
    /\ Len(mail) = 2
    /\ original[1].kind = "forward"
    /\ original[1].envelope.subject = Some(<<"f", "W", "d", ":">>)
    /\ mail[2].payload.subject = <<"f", "W", "d", ":">>

----------------------------------------------------------------------------
(* Searching: buildSearchQuery on every small SearchCriteria, and the       *)
(* server's answer for a folder that holds one message.                     *)

\* SearchCriteria (imap-client.ts:78-91): one keyword, three dates.
CriteriaInputs ==
    LET dates == {undefined, Some("2024-01-01"), Some("2024-01-02"),
                  Some("2024-01-03")}
    IN  [query : {undefined, Some(""), Some("invoice")},
         searchIn : {undefined} \cup {Some(s) : s \in TextFields \cup {"all"}},
         dateFrom : dates, dateTo : dates,
         unreadOnly : {undefined, Some(TRUE)},
         flaggedOnly : {undefined, Some(TRUE)}]

\* The messages searched: each field holds the keyword or does not, the
\* message is of the first or of the second day.
SearchedMessages ==
    [flags : SUBSET {"Seen", "Flagged"}, att : {FALSE},
     subject : SUBSET {"invoice"}, from : SUBSET {"invoice"},
     to : SUBSET {"invoice"}, body : SUBSET {"invoice"}, day : {1, 2}]

InitSearch ==
    /\ Configured
    /\ Idle
    /\ NoDraft
    /\ scenario = "search"
    /\ mailbox = [f \in {"INBOX"} |-> << >>]
    /\ uidNext = [f \in {"INBOX"} |-> 1]
    /\ \E c \in CriteriaInputs : \E m \in SearchedMessages :
          probe = Some([criteria |-> c, message |-> m, matched |-> undefined])

\* imap-client.ts:287-290: the query is built and the server searches the
\* folder with it.
SearchOne ==
    /\ probe # undefined
    /\ probe[1].matched = undefined
    /\ LET box == 1 :> probe[1].message
           searchQuery == buildSearchQuery(probe[1].criteria)
       IN  probe' = Some([probe[1] EXCEPT
                            !.matched = Some(1 \in ServerSearch(box, searchQuery))])
    /\ UNCHANGED <<resolveVars, scenario, composeVars, journal, serverVars, conns, requests, nCalls, req, call, pc, response>>

NextSearch == SearchOne

SpecSearch == InitSearch /\ [][NextSearch]_vars

----------------------------------------------------------------------------
(* Claims about searching, checked under SpecSearch. *)

Supplied(x) == x # undefined /\ x # Some("")

\* What the claim requires of message m for the criteria c.
Satisfies(c, m) ==
    /\ Supplied(c.query) =>
          IF c.searchIn \in {Some(s) : s \in TextFields}
          THEN c.query[1] \in m[c.searchIn[1]]
          ELSE \E f \in TextFields : c.query[1] \in m[f]
    /\ Supplied(c.dateFrom) => m.day >= NewDate(c.dateFrom[1])
    /\ Supplied(c.dateTo) => m.day < NewDate(c.dateTo[1])
    /\ c.unreadOnly = Some(TRUE) => "Seen" \notin m.flags
    /\ c.flaggedOnly = Some(TRUE) => "Flagged" \in m.flags

\* C21: a message matches the query built by buildSearchQuery exactly when
\* it satisfies every supplied predicate: the keyword in the one named
\* field for scope subject, from, to or body, in at least one of the four
\* for scope all or absent, the day on or after dateFrom, the day before
\* dateTo, unseen if unreadOnly, flagged if flaggedOnly; with no criterion
\* the query matches every message.
C21_MatchesExactlySupplied ==
    (probe # undefined /\ probe[1].matched # undefined) =>
        probe[1].matched[1] = Satisfies(probe[1].criteria, probe[1].message)

C21_Witness ==
    /\ probe # undefined
    /\ probe[1].criteria.query = Some("invoice")
    /\ probe[1].criteria.searchIn = Some("subject")
    /\ probe[1].message.subject = {}
    /\ probe[1].message.from = {"invoice"}
    /\ probe[1].matched = Some(FALSE)

----------------------------------------------------------------------------
(* Claims about sessions, checked under Spec. *)

CommandPcs == {"search", "fetch", "fetchOne", "parse", "store", "expunge", "move"}

Creating(p) == pc[p] \in {"idle", "create", "transport"}

\* C1: when a mailbox-scoped ImapClient call returns or raises to its
\* caller, whichever step failed, its connection holds no mailbox lock and
\* logout has been invoked on it.
C1_ReleasedOnEveryExit ==
    \A p \in Slots :
        (pc[p] = "return" /\ call[p].method \in MailboxMethods) =>
            /\ conns[call[p].client].lock = NoLock
            /\ conns[call[p].client].logout

C1_Witness ==
    \E p \in Slots :
        /\ pc[p] = "return"
        /\ call[p].method = "getEmailDetail"
        /\ call[p].threw
        /\ call[p].failedAt = "parse"

\* C2: every client call creates a transport of its own, and no transport
\* is used by another call or after it was logged out or closed; this
\* includes the calls that one forward_email request makes in a row on one
\* ImapClient.
C2_OwnConnectionPerCall ==
    /\ \A c \in DOMAIN conns : ~conns[c].misused
    /\ \A c, d \in DOMAIN conns : conns[c].owner = conns[d].owner => c = d
    /\ \A p \in Slots :
          ~Creating(p) =>
              /\ call[p].client \in DOMAIN conns
              /\ conns[call[p].client].owner = call[p].id
              /\ pc[p] # "return" => conns[call[p].client].state # "closed"
    /\ Len(conns) = nCalls - Cardinality({p \in Slots : pc[p] \in {"create", "transport"}})

C2_Witness ==
    \E p \in Slots :
        /\ pc[p] = "sendMail"
        /\ req[p].tool = "forward_email"
        /\ req[p].attachments # undefined
        /\ call[p].client = Len(conns)
        /\ \E c, d \in DOMAIN conns :
              /\ c # d
              /\ conns[c].kind = "imap" /\ conns[c].state = "closed"
              /\ conns[d].kind = "imap" /\ conns[d].state = "closed"

\* C3: in every interleaving of overlapping requests each call holds only
\* its own connection and its own lock, a call that is not finished can
\* always take its next step (none waits for a lock or connection of
\* another), and once all have returned every lock is released and every
\* connection is closed.
C3_NoInterference ==
    /\ \A p, q \in Slots :
          (p # q /\ ~Creating(p) /\ ~Creating(q)) => call[p].client # call[q].client
    /\ \A c \in DOMAIN conns :
          conns[c].lock # NoLock =>
              \E p \in Slots :
                  /\ call[p].client = c
                  /\ call[p].id = conns[c].owner
                  /\ pc[p] \in CommandPcs \cup {"release"}
                  /\ conns[c].lock = call[p].opts.folder
    /\ \A p \in Slots : pc[p] # "idle" => ENABLED Step(p)
    /\ (\A p \in Slots : pc[p] = "idle") =>
          \A c \in DOMAIN conns : conns[c].lock = NoLock /\ conns[c].state = "closed"

C3_Witness ==
    /\ pc[1] = "store"
    /\ pc[2] = "search"
    /\ conns[call[1].client].lock = "INBOX"
    /\ conns[call[2].client].lock = "INBOX"
    /\ call[1].client # call[2].client

\* C25: within one mailbox-scoped call the steps come in the order connect,
\* lock, commands, release, logout: a command is issued only on an open
\* connection that holds the lock of the call's folder, the lock is free
\* when logout is invoked and stays free, a connection that holds a lock
\* takes no other one, and nothing is done on a connection after logout.
C25_ConnectLockCommandsReleaseLogout ==
    /\ [](\A p \in Slots :
             (call[p].method \in MailboxMethods /\ call[p].client \in DOMAIN conns) =>
                 LET c == conns[call[p].client] IN
                 /\ pc[p] = "connect" => c.state = "new" /\ c.lock = NoLock
                 /\ pc[p] = "lock" => c.state = "open" /\ c.lock = NoLock /\ ~c.logout
                 /\ pc[p] \in CommandPcs =>
                       c.state = "open" /\ c.lock = call[p].opts.folder /\ ~c.logout
                 /\ pc[p] = "release" => c.state = "open" /\ ~c.logout
                 /\ pc[p] = "logout" => c.lock = NoLock /\ ~c.logout
                 /\ c.logout => c.lock = NoLock /\ pc[p] = "return")
    /\ [][\A c \in DOMAIN conns :
             /\ conns[c].lock # NoLock => conns'[c].lock \in {NoLock, conns[c].lock}
             /\ conns[c].logout => conns'[c] = conns[c]]_vars

C25_Witness ==
    \E p \in Slots :
        /\ pc[p] = "expunge"
        /\ call[p].method = "deleteEmails"
        /\ conns[call[p].client].lock = "INBOX"
        /\ "Deleted" \in mailbox["INBOX"][2].flags

\* C27: the IMAP connection is dialed with the security mode of the
\* resolved account: the secure value that resolution produced is the one
\* every IMAP connection is created with.
C27_ImapDialedWithResolvedMode ==
    \A c \in DOMAIN conns :
        conns[c].kind = "imap" => conns[c].secure = resolved.value.smtp_secure[1]

\* The call in slot p holds a mailbox lock.
HoldsLock(p) ==
    /\ call[p].client \in DOMAIN conns
    /\ conns[call[p].client].lock # NoLock

\* C26: provided every await settles (completes, fails or is timed out),
\* every started request is eventually answered with a result or an error,
\* and every mailbox lock that is held is eventually released, also when
\* the endpoint stops responding at connect, at a command or at logout.
C26_EveryOperationReturns ==
    \A p \in Slots :
        /\ (pc[p] # "idle") ~> (pc[p] = "idle" /\ response[p] # undefined)
        /\ HoldsLock(p) ~> ~HoldsLock(p)

C26_Witness ==
    \E p \in Slots :
        /\ pc[p] = "hung"
        /\ call[p].hungAt = "fetchOne"
        /\ call[p].method = "getAttachments"
        /\ req[p].tool = "forward_email"
        /\ HoldsLock(p)

\* C20: forward_email attaches files only when include_attachments is true:
\* when it is false or absent no second IMAP call fetches attachment
\* content and the submitted payload has no attachments; when it is true
\* and the original has attachments, the payload carries exactly the
\* original's attachments that have content.
C20_AttachOnlyOnRequest ==
    \A p \in Slots :
        (req[p] # undefined /\ req[p].tool = "forward_email") =>
            LET asked == req[p].input.include_attachments = Some(TRUE)
                sending == call[p].method = "forwardEmail"
            IN  /\ ~asked =>
                      /\ call[p].method # "getAttachments"
                      /\ req[p].attachments = undefined
                      /\ sending => call[p].opts.attachments = << >>
                /\ (asked /\ sending) =>
                      call[p].opts.attachments =
                          SelectSeq(req[p].original[1].attachments,
                                    LAMBDA a : a.content # undefined)

----------------------------------------------------------------------------
(* Claims about sending and testing, checked under SpecDelivery. *)

Tested(p) == pc[p] = "return" /\ call[p].method \in TestMethods

NoLockNoMessage(p) ==
    (call[p].method \in TestMethods /\ call[p].client \in DOMAIN conns) =>
        /\ conns[call[p].client].lock = NoLock
        /\ conns[call[p].client].sent = 0

InboxCounts(p) ==
    call[p].value.inbox =
        IF call[p].method = "ImapClient.testConnection"
        THEN Some(ServerStatus(mailbox["INBOX"])) ELSE undefined

C16_OneSubmissionOneClose ==
    /\ \A c \in DOMAIN conns :
          conns[c].kind = "smtp" => conns[c].sent <= 1 /\ conns[c].closes <= 1
    /\ \A p \in Slots :
          (pc[p] = "return" /\ call[p].method \in SmtpMethods) =>
              LET k == call[p]
                  c == conns[k.client]
              IN  /\ ~k.threw
                  /\ c.sent = 1
                  /\ c.closes = 1
                  /\ c.state = "closed"
                  /\ k.value.success = c.accepted
                  /\ k.value.success => k.value.messageId # undefined
                  /\ ~k.value.success =>
                        k.value.error # undefined /\ k.value.messageId = undefined

C16_Witness ==
    \E p \in Slots :
        /\ pc[p] = "return"
        /\ call[p].method = "replyEmail"
        /\ ~conns[call[p].client].accepted
        /\ conns[call[p].client].closes = 1
        /\ ~call[p].value.success

\* The selectable mailboxes of an enumeration, in its order.
Selectable(order) == SelectSeq(order, LAMBDA b : ~b.noselect)

\* The entry of a mailbox: its counts, or zeros when call k could not get
\* its status.
EntryFor(k, path) ==
    [path |-> path,
     total |-> IF path \in k.unavailable
               THEN 0 ELSE ServerStatus(mailbox[path]).total,
     unseen |-> IF path \in k.unavailable
                THEN 0 ELSE ServerStatus(mailbox[path]).unseen]

\* C24: listFolders returns one entry per selectable mailbox, in the order
\* of the enumeration, and none for a mailbox that cannot be selected; a
\* mailbox whose status query fails is reported with total 0 and unseen 0,
\* the other entries carry their own counts, and the call raises only when
\* the connection or the enumeration itself fails.
C24_FailedStatusIsZero ==
    \A p \in Slots :
        LET k == call[p]
            sel == Selectable(k.mailboxes)
        IN  (k.method = "listFolders" /\ pc[p] = "return") =>
                IF k.threw
                THEN k.failedAt \in {"connect", "list"}
                ELSE /\ Len(sel) = Cardinality(DOMAIN mailbox)
                     /\ k.value = [i \in 1..Len(sel) |-> EntryFor(k, sel[i].path)]

C24_Witness ==
    \E p \in Slots :
        /\ pc[p] = "return"
        /\ call[p].method = "listFolders"
        /\ ~call[p].threw
        /\ call[p].unavailable = {"INBOX"}
        /\ call[p].mailboxes[1].noselect
        /\ call[p].value[1] = [path |-> "INBOX", total |-> 0, unseen |-> 0]
        /\ call[p].value[2] =
              [path |-> EMAIL_PROVIDERS["gmail"].trash_folder,
               total |-> 1, unseen |-> 1]
        /\ Len(call[p].value) = 3

\* C23: a request that names an account that is not configured, or a custom
\* account without a host, is answered with the error at once: it opens no
\* IMAP or SMTP connection, makes no client call and changes no mailbox;
\* only requests for a configured account that resolves get as far as a
\* client call.
C23_ConfigErrorTouchesNothing ==
    /\ [](\A p \in Slots :
             req[p] # undefined =>
                 /\ account.id = Some(req[p].account_id)
                 /\ resolveAccount(account).ok)
    /\ [](~resolveAccount(account).ok => conns = << >> /\ nCalls = 0)
    /\ [][(requests' # requests /\ nCalls' = nCalls) =>
             /\ UNCHANGED <<conns, mailbox, uidNext, pc, call>>
             /\ \E p \in Slots :
                   response'[p] \in {Some("not_found"), Some("config_error")}]_vars

C23_Witness ==
    /\ requests = MaxRequests
    /\ Len(conns) = 1
    /\ \E p \in Slots : response[p] = Some("not_found")

\* The request in slot p is a reply or a forward.
Answering(p) ==
    req[p] # undefined /\ req[p].tool \in {"reply_email", "forward_email"}

\* C30: reply_email and forward_email submit only after the fetch of the
\* original returned a message: when the fetch returns null the handler
\* answers with an error, creates no SMTP transport and sends nothing; and
\* from the moment the handler turns to SMTP every IMAP connection of the
\* request has released its lock and is logged out and closed.
C30_SubmitAfterFetchClosed ==
    /\ [](\A p \in Slots :
             (Answering(p) /\ call[p].method \in {"replyEmail", "forwardEmail"}) =>
                 /\ req[p].original # undefined
                 /\ \A c \in DOMAIN conns :
                       (conns[c].owner \in req[p].calls /\ conns[c].kind = "imap") =>
                           /\ conns[c].lock = NoLock
                           /\ conns[c].logout
                           /\ conns[c].state = "closed")
    /\ [][\A p \in Slots :
             (/\ Answering(p)
              /\ pc[p] = "return"
              /\ call[p].method = "getEmailDetail"
              /\ ~call[p].threw
              /\ call[p].value = undefined
              /\ pc'[p] # pc[p])
                 => /\ response'[p] = Some("error")
                    /\ pc'[p] = "idle"
                    /\ conns' = conns
                    /\ nCalls' = nCalls]_vars

C30_Witness ==
    \E p \in Slots :
        /\ Answering(p)
        /\ req[p].tool = "forward_email"
        /\ req[p].attachments # undefined
        /\ pc[p] = "sendMail"
        /\ Cardinality({c \in DOMAIN conns :
                           conns[c].owner \in req[p].calls /\ conns[c].kind = "imap"}) = 2

\* C22: every tool operation answers a transport or parse failure at any
\* step of the request with a structured failure result, the first fetch
\* of reply_email and forward_email and the attachment fetch of
\* forward_email included: no handler ends with an exception it did not
\* catch.
C22_NoUncaughtException ==
    \A p \in Slots : response[p] # Some("exception")

----------------------------------------------------------------------------
(* One request at a time: every mailbox tool, twice in a row, against an   *)
(* INBOX with or without a gap in its UIDs, for an account that keeps the  *)
(* preset trash folder or names one the server does not have.              *)

SequenceAccounts ==
    {ConfiguredAccount, [ConfiguredAccount EXCEPT !.trash_folder = Some("Bin")]}

InitSequence ==
    /\ Quiet
    /\ scenario = "sequence"
    /\ account \in SequenceAccounts
    /\ resolved = resolveAccount(account)
    /\ resolved2 = undefined
    /\ rpc = "resolved"
    /\ \E low \in {1, 2} :
          mailbox =
             [f \in ServerFolders |->
                 CASE f = "INBOX" ->
                        (low :> [flags |-> {}, att |-> TRUE]) @@
                        ((low + 1) :> [flags |-> {"Seen"}, att |-> FALSE])
                   [] f = "Archive" -> << >>
                   [] OTHER -> (2 :> [flags |-> {"Flagged"}, att |-> FALSE])]
    /\ uidNext = [f \in ServerFolders |-> MaxUid + 1]

SequenceStep(p) ==
    \/ Invoke(p) \/ CreateClient(p) \/ Connect(p) \/ GetMailboxLock(p)
    \/ Search(p) \/ Fetch(p) \/ FetchOne(p) \/ Parse(p) \/ Store(p)
    \/ MessageDelete(p) \/ MessageMove(p) \/ ReleaseLock(p) \/ Logout(p)
    \/ Return(p)

NextSequence == \E p \in Slots : SequenceStep(p)

SpecSequence == InitSequence /\ [][NextSequence]_vars

----------------------------------------------------------------------------
(* Claims about one-at-a-time runs, checked under SpecSequence. *)

UidsOf(summaries) == {summaries[i].uid : i \in DOMAIN summaries}

\* The call of journal entry e returned to the handler and no await of it
\* was rejected or refused.
Clean(e) == e.done /\ ~e.call.threw /\ e.call.failedAt = ""

TrashDeletion(e) ==
    /\ e.done
    /\ e.call.method = "deleteEmails"
    /\ ~e.call.opts.permanent
    /\ ~e.call.threw

\* C11: after deleteEmails(uids, folder, permanent=false) returned success,
\* whichever source folder was named, every message the uids named is in
\* the account's resolved trash folder, and a later listEmails on the source
\* folder returns none of the uids.
C11_MovedToTrash ==
    \A i \in DOMAIN journal :
        TrashDeletion(journal[i]) =>
            LET e == journal[i]
                src == e.call.opts.folder
                uids == Range(e.call.opts.uids)
                trash == resolved.value.trash_folder[1]
            IN  /\ e.call.value.success
                /\ trash \in DOMAIN e.after
                /\ \A u \in uids \cap DOMAIN e.before[src] :
                      \E v \in DOMAIN e.after[trash] :
                          e.after[trash][v] = e.before[src][u]
                /\ \A j \in DOMAIN journal :
                      (/\ j > i
                       /\ Clean(journal[j])
                       /\ journal[j].call.method = "listEmails"
                       /\ journal[j].call.opts.folder = src)
                          => UidsOf(journal[j].call.value) \cap uids = {}

\* C12: getEmailDetail for a UID that is not in an existing folder returns
\* null when it returns, getAttachments returns the empty list, and once
\* the request is answered the lock is released and the connection closed.
C12_NotFoundIsNull ==
    \A i \in DOMAIN journal :
        LET e == journal[i] IN
        (/\ e.done
         /\ e.call.method \in {"getEmailDetail", "getAttachments"}
         /\ e.call.opts.folder \in DOMAIN e.before
         /\ e.call.opts.uid \notin DOMAIN e.before[e.call.opts.folder])
            => /\ ~e.call.threw =>
                     e.call.value = IF e.call.method = "getEmailDetail"
                                    THEN undefined ELSE << >>
               /\ conns[e.call.client].lock = NoLock
               /\ conns[e.call.client].state = "closed"

\* C13: an operation on a folder the server does not have returns the empty
\* list (listEmails, searchEmails, getAttachments) or null (getEmailDetail)
\* and raises nothing, once it is connected.
C13_MissingFolderIsEmpty ==
    \A i \in DOMAIN journal :
        LET e == journal[i] IN
        (/\ e.done
         /\ e.call.method \in
               {"listEmails", "searchEmails", "getAttachments", "getEmailDetail"}
         /\ e.call.opts.folder \notin DOMAIN e.before
         /\ e.call.failedAt # "connect")
            => /\ ~e.call.threw
               /\ e.call.value = IF e.call.method = "getEmailDetail"
                                  THEN undefined ELSE << >>

\* Entry e left every folder but f as it was.
OtherFoldersKept(e, f) ==
    /\ DOMAIN e.after = DOMAIN e.before
    /\ \A g \in DOMAIN e.before \ {f} : e.after[g] = e.before[g]

\* C28: after markEmails returned success every message of the folder whose
\* UID is among uids has the read flag set (markAs read) or cleared (markAs
\* unread), and after flagEmail returned success the starred flag of that
\* one UID equals setFlag; no other message, no other flag and no other
\* folder has changed.
C28_OnlyNamedFlagChanges ==
    \A i \in DOMAIN journal :
        LET e == journal[i]
            k == e.call
        IN  (e.done /\ k.method \in {"markEmails", "flagEmail"} /\ ~k.threw) =>
                LET f == k.opts.folder
                    uids == IF k.method = "flagEmail" THEN {k.opts.uid}
                            ELSE Range(k.opts.uids)
                    flag == IF k.method = "flagEmail" THEN "Flagged" ELSE "Seen"
                    set == IF k.method = "flagEmail" THEN k.opts.setFlag
                           ELSE k.opts.markAs = "read"
                IN  /\ k.value.success
                    /\ OtherFoldersKept(e, f)
                    /\ DOMAIN e.after[f] = DOMAIN e.before[f]
                    /\ \A u \in DOMAIN e.before[f] :
                          e.after[f][u] =
                              IF u \in uids
                              THEN [e.before[f][u] EXCEPT
                                       !.flags = IF set THEN @ \cup {flag}
                                                 ELSE @ \ {flag}]
                              ELSE e.before[f][u]

\* C29: deleteEmails with permanent=true adds the deleted flag to the UIDs
\* and then purges them, under one lock on the source folder; after it
\* returned success none of the UIDs is in the source folder, every other
\* message of it is still there unchanged, and the trash folder and every
\* other folder are as before.
C29_PurgesOnlyNamed ==
    /\ \A p \in Slots :
          (pc[p] = "expunge" /\ call[p].failedAt = "") =>
              /\ conns[call[p].client].lock = call[p].opts.folder
              /\ \A u \in Range(call[p].opts.uids) \cap DOMAIN mailbox[call[p].opts.folder] :
                    "Deleted" \in mailbox[call[p].opts.folder][u].flags
    /\ \A i \in DOMAIN journal :
          LET e == journal[i]
              k == e.call
          IN  (e.done /\ k.method = "deleteEmails" /\ k.opts.permanent /\ ~k.threw) =>
                  LET f == k.opts.folder
                      uids == Range(k.opts.uids)
                  IN  /\ k.value.success
                      /\ OtherFoldersKept(e, f)
                      /\ DOMAIN e.after[f] = DOMAIN e.before[f] \ uids
                      /\ \A u \in DOMAIN e.after[f] : e.after[f][u] = e.before[f][u]

\* The state the batch operation of entry e asks for holds for UID u.
Applied(e, u) ==
    LET k == e.call
        box == e.after[k.opts.folder]
    IN  CASE k.method = "markEmails" ->
               /\ u \in DOMAIN box
               /\ ("Seen" \in box[u].flags) = (k.opts.markAs = "read")
          [] OTHER -> u \notin DOMAIN box

\* C14: markEmails, deleteEmails and moveEmails over several UIDs either
\* raise one error, or return success with count equal to the number of
\* UIDs requested and the change applied to every requested UID.
C14_AllOrError ==
    \A i \in DOMAIN journal :
        LET e == journal[i] IN
        (/\ e.done
         /\ e.call.method \in {"markEmails", "deleteEmails", "moveEmails"}
         /\ ~e.call.threw)
            => /\ e.call.value.success
               /\ e.call.value.count = Len(e.call.opts.uids)
               /\ \A u \in Range(e.call.opts.uids) : Applied(e, u)

----------------------------------------------------------------------------
(* Claims about listing and searching, checked under SpecListing. *)

Finished(p, methods) ==
    /\ pc[p] = "return"
    /\ call[p].method \in methods
    /\ ~call[p].threw
    /\ call[p].failedAt = ""

ReturnedUids(p) == {call[p].value[i].uid : i \in DOMAIN call[p].value}

\* C8: listEmails and searchEmails return their summaries in strictly
\* descending UID order, whatever the order in which the server delivers
\* the fetched messages.
C8_DescendingUid ==
    \A p \in Slots :
        Finished(p, {"listEmails", "searchEmails"}) =>
            \A i, j \in DOMAIN call[p].value :
                i < j => call[p].value[i].uid > call[p].value[j].uid

\* C9 (the bound): for every numeric limit of the tool input, list_emails
\* and search_emails return at most min(limit, 100) summaries (none when
\* that number is not positive).
C9_AtMostLimit ==
    \A p \in Slots :
        (Finished(p, {"listEmails", "searchEmails"}) /\ req[p].input.limit # undefined) =>
            Len(call[p].value) * LimitDenominator
                <= Max(0, Min(req[p].input.limit[1], Whole(100)))

\* C10: with no concurrent mutation, listEmails with unreadOnly=true returns
\* exactly one summary per unread message of the folder when their number
\* is at most limit, none for a read message, each with seen=false; with
\* unreadOnly=false it returns read and unread messages alike.
C10_UnreadOnly ==
    \A p \in Slots :
        Finished(p, {"listEmails"}) =>
            LET o == call[p].opts
                box == mailbox[o.folder]
                wanted == IF o.unreadOnly
                          THEN {u \in DOMAIN box : "Seen" \notin box[u].flags}
                          ELSE DOMAIN box
            IN  Whole(Cardinality(wanted)) <= o.limit =>
                    /\ Len(call[p].value) = Cardinality(wanted)
                    /\ ReturnedUids(p) = wanted
                    /\ \A i \in DOMAIN call[p].value :
                          /\ o.unreadOnly => ~call[p].value[i].seen
                          /\ call[p].value[i].seen = ("Seen" \in box[call[p].value[i].uid].flags)

----------------------------------------------------------------------------
(* Resolution runs: resolve an account, then resolve the result again. *)

InitResolve ==
    /\ Quiet
    /\ scenario = "resolution"
    /\ mailbox = [f \in {"INBOX"} |-> << >>]
    /\ uidNext = [f \in {"INBOX"} |-> 1]
    /\ account \in AccountSchema
    /\ resolved = undefined
    /\ resolved2 = undefined
    /\ rpc = "start"

Resolve ==
    /\ rpc = "start"
    /\ resolved' = resolveAccount(account)
    /\ rpc' = "resolved"
    /\ UNCHANGED <<account, resolved2, scenario, probe, composeVars, journal, serverVars, conns, requests, nCalls, req, call, pc, response>>

ResolveAgain ==
    /\ rpc = "resolved"
    /\ resolved.ok
    /\ resolved2' = resolveAccount(resolved.value)
    /\ rpc' = "again"
    /\ UNCHANGED <<account, resolved, scenario, probe, composeVars, journal, serverVars, conns, requests, nCalls, req, call, pc, response>>

NextResolve == Resolve \/ ResolveAgain

SpecResolve == InitResolve /\ [][NextResolve]_vars

----------------------------------------------------------------------------
(* Claims about account resolution, checked under SpecResolve. *)

ConnFields ==
    {"imap_server", "imap_port", "smtp_server", "smtp_port", "smtp_secure",
     "trash_folder"}

\* C4: whenever resolveAccount returns, the resolved imap_server,
\* smtp_server and trash_folder are non-empty strings and both ports are
\* defined; the inputs range over everything AccountSchema accepts, the
\* empty string included.
C4_ResolvedIsComplete ==
    (rpc # "start" /\ resolved.ok) =>
        /\ resolved.value.imap_server \notin {undefined, Some("")}
        /\ resolved.value.smtp_server \notin {undefined, Some("")}
        /\ resolved.value.trash_folder \notin {undefined, Some("")}
        /\ resolved.value.imap_port # undefined
        /\ resolved.value.smtp_port # undefined

\* C5, as stated: resolveAccount fails exactly when the provider is custom
\* and the IMAP host or the SMTP host is missing (absent from the record).
C5_FailsExactlyWhenHostAbsent ==
    rpc # "start" =>
        (~resolved.ok <=>
            /\ account.provider = "custom"
            /\ (account.imap_server = undefined \/ account.smtp_server = undefined))

\* C5, amended: resolveAccount fails exactly when the provider is custom and
\* the IMAP host or the SMTP host is absent or the empty string; in every
\* other case it returns a resolved account.
C5_FailsExactlyWhenHostAbsentOrEmpty ==
    rpc # "start" =>
        (~resolved.ok <=>
            /\ account.provider = "custom"
            /\ \/ account.imap_server \in {undefined, Some("")}
               \/ account.smtp_server \in {undefined, Some("")})

C5_Witness ==
    /\ rpc = "resolved"
    /\ ~resolved.ok
    /\ account.provider = "custom"
    /\ account.imap_server = Some("")
    /\ account.smtp_server = Some("mail.example.com")

HardDefault ==
    [f \in {"imap_port", "smtp_port", "smtp_secure", "trash_folder"} |->
        CASE f = "imap_port" -> Some(993)
          [] f = "smtp_port" -> Some(465)
          [] f = "smtp_secure" -> Some(TRUE)
          [] f = "trash_folder" -> Some("Trash")]

PresetRow(p) ==
    [f \in ConnFields |-> Some(EMAIL_PROVIDERS[p][f])]

\* C6: each of the six connection fields resolves to the account's override
\* when one is supplied, otherwise to the preset value of a built-in
\* provider, otherwise to the hard default; a built-in provider without
\* overrides resolves to exactly its preset row.
C6_ResolutionOrder ==
    (rpc # "start" /\ resolved.ok) =>
        /\ \A f \in ConnFields :
              resolved.value[f] =
                  IF account[f] # undefined THEN account[f]
                  ELSE IF account.provider \in Builtin
                       THEN PresetRow(account.provider)[f]
                       ELSE HardDefault[f]
        /\ (/\ account.provider \in Builtin
            /\ \A f \in ConnFields : account[f] = undefined)
              => \A f \in ConnFields :
                    resolved.value[f] = PresetRow(account.provider)[f]

C6_Witness ==
    /\ rpc = "resolved"
    /\ resolved.ok
    /\ account.provider = "qq"
    /\ account.smtp_secure = Some(FALSE)
    /\ resolved.value.smtp_secure = Some(FALSE)
    /\ account.trash_folder = undefined
    /\ resolved.value.trash_folder = Some("Deleted Messages")

\* C7: resolving the result of a successful resolution returns a record
\* equal to it in every field, the identification-handshake flag included,
\* and no step of the run changes the input account record.
C7_Idempotent ==
    /\ [](rpc = "again" => (resolved2.ok /\ resolved2.value = resolved.value))
    /\ [][account' = account]_vars

C7_Witness ==
    /\ rpc = "again"
    /\ account.provider = "163"
    /\ account.imap_server = undefined
    /\ resolved2.ok
    /\ resolved2.value.requiresImapId = Some(TRUE)

====
